---- MODULE Spec2Model ----
(***************************************************************************)
(* dom-shorthand: node descriptions, shorthands, and the routines that     *)
(* patch a live DOM tree towards a description.                            *)
(*                                                                         *)
(* A live node is a record                                                 *)
(*   [id, nodeType, nodeName, nodeValue, childNodes] (+ attributes for an  *)
(*   element), where id is the node's identity (two records with equal id  *)
(*   are the same instance), nodeValue is a string or NULL, attributes is  *)
(*   the element's NamedNodeMap as a sequence of [name, localName, value]  *)
(*   and childNodes is the sequence of child nodes.                        *)
(* A description is a record whose DOMAIN is the set of keys the JSON      *)
(* object carries; its attributes are a function from names to values.     *)
(* A shorthand is a record too; the bare string of a text shorthand is     *)
(* the record [string |-> s], so that typeof can be told from the keys.    *)
(***************************************************************************)
EXTENDS Integers, Sequences, FiniteSets, TLC

VARIABLES op, node, before, input, output

vars == <<op, node, before, input, output>>

(***************************************************************************)
(* NodeType and FixedNodeTypeNames                                         *)
(***************************************************************************)
ELEMENT_NODE == 1
ATTRIBUTE_NODE == 2
TEXT_NODE == 3
CDATA_SECTION_NODE == 4
PROCESSING_INSTRUCTION_NODE == 7
COMMENT_NODE == 8
DOCUMENT_NODE == 9
DOCUMENT_TYPE_NODE == 10
DOCUMENT_FRAGMENT_NODE == 11

TEXT_NODE_NAME == "#text"
CDATA_SECTION_NODE_NAME == "#cdata-section"
COMMENT_NODE_NAME == "#comment"
DOCUMENT_NODE_NAME == "#document"
DOCUMENT_FRAGMENT_NODE_NAME == "#document-fragment"

\* JavaScript's null (a node value, an attribute shorthand's value).
NULL == "<null>"

\* JavaScript's undefined as a function's result ("no node", "no shorthand").
NOTHING == [nothing |-> TRUE]

IsNothing(v) == DOMAIN v = {"nothing"}

\* undefined where a list is expected, and the test for it
NO_LIST == <<NOTHING>>

IsNoList(v) == v = NO_LIST

\* key in object
Has(object, key) == key \in DOMAIN object

\* A slip: a key that is there with the value null is taken for a value.
NotNull_Has(object, key) == key \in DOMAIN object

\* object.key != null, for the string-valued keys nodeName and nodeValue
NotNull(object, key) == Has(object, key) /\ object[key] # NULL

\* object[key] = value on a JSON object
Put(object, key, value) ==
  [k \in DOMAIN object \cup {key} |-> IF k = key THEN value ELSE object[k]]

\* The keys of a JSON object in the order for..in visits them.  The order is
\* fixed per object; it only decides the order in which missing attributes are
\* appended to a NamedNodeMap.
RECURSIVE KeysOf(_)
KeysOf(keys) ==
  IF keys = {} THEN <<>>
  ELSE LET k == CHOOSE k \in keys : TRUE IN <<k>> \o KeysOf(keys \ {k})

RemoveAt(seq, i) == [j \in 1..(Len(seq) - 1) |-> IF j < i THEN seq[j] ELSE seq[j + 1]]

(***************************************************************************)
(* The host document: node creation, NamedNodeMap and child list.          *)
(* The document is one that has CDATA sections and keeps names as given.   *)
(***************************************************************************)
createElement(tagName, id) ==
  [id |-> id, nodeType |-> ELEMENT_NODE, nodeName |-> tagName, nodeValue |-> NULL,
   attributes |-> <<>>, childNodes |-> <<>>]

createTextNode(data, id) ==
  [id |-> id, nodeType |-> TEXT_NODE, nodeName |-> TEXT_NODE_NAME,
   nodeValue |-> data, childNodes |-> <<>>]

createCDATASection(data, id) ==
  [id |-> id, nodeType |-> CDATA_SECTION_NODE, nodeName |-> CDATA_SECTION_NODE_NAME,
   nodeValue |-> data, childNodes |-> <<>>]

createComment(data, id) ==
  [id |-> id, nodeType |-> COMMENT_NODE, nodeName |-> COMMENT_NODE_NAME,
   nodeValue |-> data, childNodes |-> <<>>]

createProcessingInstruction(target, data, id) ==
  [id |-> id, nodeType |-> PROCESSING_INSTRUCTION_NODE, nodeName |-> target,
   nodeValue |-> data, childNodes |-> <<>>]

createDocumentFragment(id) ==
  [id |-> id, nodeType |-> DOCUMENT_FRAGMENT_NODE,
   nodeName |-> DOCUMENT_FRAGMENT_NODE_NAME, nodeValue |-> NULL, childNodes |-> <<>>]

\* document.createAttribute(name) as a node; its value starts empty.
createAttributeNode(name, value, id) ==
  [id |-> id, nodeType |-> ATTRIBUTE_NODE, nodeName |-> name,
   nodeValue |-> value, childNodes |-> <<>>]

\* document.createAttribute(key) as a NamedNodeMap entry: no namespace, so the
\* qualified name and the local name are the same.
createAttribute(key) == [name |-> key, localName |-> key, value |-> ""]

\* The index of the first attribute whose qualified name is key, 0 if none.
IndexOfName(attributes, key) ==
  IF \E i \in 1..Len(attributes) : attributes[i].name = key
  THEN CHOOSE i \in 1..Len(attributes) :
         /\ attributes[i].name = key
         /\ \A j \in 1..(i - 1) : attributes[j].name # key
  ELSE 0

\* attributes.getNamedItem(key): the attribute, or NOTHING
getNamedItem(attributes, key) ==
  LET i == IndexOfName(attributes, key)
  IN IF i = 0 THEN NOTHING ELSE attributes[i]

\* attributes.setNamedItem(attribute) for an attribute without namespace
setNamedItem(attributes, attribute) ==
  LET i == IndexOfName(attributes, attribute.name)
  IN IF i = 0 THEN Append(attributes, attribute)
     ELSE [attributes EXCEPT ![i] = attribute]

\* attributes.removeNamedItem(name)
removeNamedItem(attributes, name) ==
  LET i == IndexOfName(attributes, name)
  IN IF i = 0 THEN attributes ELSE RemoveAt(attributes, i)

\* attribute.value = value, on the attribute of that name
setAttributeValue(attributes, key, value) ==
  LET i == IndexOfName(attributes, key)
  IN IF i = 0 THEN attributes ELSE [attributes EXCEPT ![i].value = value]

\* element.getAttribute(key): the value, or NULL
getAttribute(element, key) ==
  LET attribute == getNamedItem(element.attributes, key)
  IN IF IsNothing(attribute) THEN NULL ELSE attribute.value

\* element.setAttribute(key, value)
setAttribute(element, key, value) ==
  IF IndexOfName(element.attributes, key) = 0
  THEN [element EXCEPT !.attributes =
          Append(@, [name |-> key, localName |-> key, value |-> value])]
  ELSE [element EXCEPT !.attributes = setAttributeValue(@, key, value)]

\* What a call yields when a host operation in it throws.
RAISED == [raised |-> TRUE]

IsRaised(v) == DOMAIN v = {"raised"}

\* The host creates elements, attributes and processing instructions only under
\* a valid name (InvalidCharacterError otherwise); of the names used here the
\* empty string is the invalid one.
ValidName(name) == name # ""

\* The host appends to an element or a fragment anything but an attribute, a
\* document or a document type (HierarchyRequestError otherwise).
CanAppendChild(child) ==
  child.nodeType \notin {ATTRIBUTE_NODE, DOCUMENT_NODE, DOCUMENT_TYPE_NODE}

\* A slip: the child is put before the others instead of after them.
appendChild_First(target, child) ==
  [target EXCEPT !.childNodes = <<child>> \o @]

\* target.appendChild(child); of a fragment the host appends the children
appendChild(target, child) ==
  IF child.nodeType = DOCUMENT_FRAGMENT_NODE
  THEN [target EXCEPT !.childNodes = @ \o child.childNodes]
  ELSE [target EXCEPT !.childNodes = Append(@, child)]

\* A slip: the first child is removed instead of the last.
removeLastChild_First(target) ==
  [target EXCEPT !.childNodes = Tail(@)]

\* node.removeChild(node.lastChild)
removeLastChild(target) ==
  [target EXCEPT !.childNodes = SubSeq(@, 1, Len(@) - 1)]

\* A slip: the new child is inserted before the old one, which stays.
replaceChild_Insert(target, updatedChild, i) ==
  [target EXCEPT !.childNodes =
     SubSeq(@, 1, i - 1) \o <<updatedChild>> \o SubSeq(@, i, Len(@))]

\* node.replaceChild(updatedChild, child), child being node.childNodes.item(i)
replaceChild(target, updatedChild, i) ==
  [target EXCEPT !.childNodes[i] = updatedChild]

\* node instanceof Element
IsElement(n) == n.nodeType = ELEMENT_NODE

\* node instanceof CharacterData
IsCharacterData(n) ==
  n.nodeType \in {TEXT_NODE, CDATA_SECTION_NODE, COMMENT_NODE,
                  PROCESSING_INSTRUCTION_NODE}

(***************************************************************************)
(* describeNode, describeNodeList, describeElementAttributes               *)
(***************************************************************************)
RECURSIVE describeAttributesFrom(_, _, _)
describeAttributesFrom(attributes, index, attributeMap) ==
  IF index > Len(attributes) THEN attributeMap
  ELSE describeAttributesFrom(attributes, index + 1,
         Put(attributeMap, attributes[index].localName, attributes[index].value))

describeElementAttributes(element) ==
  describeAttributesFrom(element.attributes, 1, <<>>)

RECURSIVE describeNode(_)
RECURSIVE describeNodeList(_)

describeNodeList(list) == [i \in 1..Len(list) |-> describeNode(list[i])]

\* A slip: the child list is attached even when it is empty.
describeNode_EmptyLists(n) ==
  LET named == [nodeType |-> n.nodeType, nodeName |-> n.nodeName]
      valued == IF n.nodeValue # NULL
                THEN Put(named, "nodeValue", n.nodeValue) ELSE named
      attributed == IF Has(n, "attributes")
                    THEN Put(valued, "attributes", describeElementAttributes(n))
                    ELSE valued
  IN Put(attributed, "childNodes", describeNodeList(n.childNodes))

describeNode(n) ==
  LET named == [nodeType |-> n.nodeType, nodeName |-> n.nodeName]
      valued == IF n.nodeValue # NULL
                THEN Put(named, "nodeValue", n.nodeValue) ELSE named
      attributed == IF Has(n, "attributes")
                    THEN Put(valued, "attributes", describeElementAttributes(n))
                    ELSE valued
      childDescriptions == describeNodeList(n.childNodes)
  IN IF Len(childDescriptions) > 0
     THEN Put(attributed, "childNodes", childDescriptions)
     ELSE attributed

(***************************************************************************)
(* createDescribedNode, appendDescribedChildNodes, setElementAttributes    *)
(* A created node takes the identity id; the child made from the i-th      *)
(* child description takes id \o <<i>>.                                    *)
(***************************************************************************)
RECURSIVE setElementAttributesFrom(_, _, _)
setElementAttributesFrom(element, values, keys) ==
  IF keys = <<>> THEN element
  ELSE LET key == Head(keys)
           value == values[key]
       IN IF getAttribute(element, key) # value
          THEN IF ValidName(key)
               THEN setElementAttributesFrom(setAttribute(element, key, value),
                                             values, Tail(keys))
               ELSE RAISED
          ELSE setElementAttributesFrom(element, values, Tail(keys))

\* A slip: the attributes of the description are never written.
setElementAttributes_None(element, values) == element

setElementAttributes(element, values) ==
  setElementAttributesFrom(element, values, KeysOf(DOMAIN values))

\* A slip: the default is left out and the host writes undefined as text.
ValueOrEmpty_Undefined(description) ==
  IF Has(description, "nodeValue") /\ description.nodeValue # NULL
  THEN description.nodeValue ELSE "undefined"

\* description.nodeValue ?? ''
ValueOrEmpty(description) ==
  IF NotNull(description, "nodeValue") THEN description.nodeValue ELSE ""

RECURSIVE createDescribedNode(_, _)
RECURSIVE appendDescribedChildNodesFrom(_, _, _)

appendDescribedChildNodesFrom(target, childDescriptions, i) ==
  IF i > Len(childDescriptions) THEN target
  ELSE LET child == createDescribedNode(childDescriptions[i], target.id \o <<i>>)
       IN IF IsRaised(child) THEN RAISED
          ELSE IF ~IsNothing(child)
          THEN IF CanAppendChild(child)
               THEN appendDescribedChildNodesFrom(appendChild(target, child),
                                                  childDescriptions, i + 1)
               ELSE RAISED
          ELSE appendDescribedChildNodesFrom(target, childDescriptions, i + 1)

appendDescribedChildNodes(target, description) ==
  IF Has(description, "childNodes")
  THEN appendDescribedChildNodesFrom(target, description.childNodes, 1)
  ELSE target

\* A slip: the element is created whether or not the description names it.
createDescribedElement_Unchecked(description, id) ==
  LET element == createElement(IF Has(description, "nodeName")
                               THEN description.nodeName ELSE "undefined", id)
      attributed == IF Has(description, "attributes")
                    THEN setElementAttributes(element, description.attributes)
                    ELSE element
  IN IF IsRaised(attributed) THEN RAISED
     ELSE appendDescribedChildNodes(attributed, description)

\* case NodeType.ELEMENT_NODE
createDescribedElement(description, id) ==
  IF NotNull(description, "nodeName")
  THEN LET element == createElement(description.nodeName, id)
           attributed == IF Has(description, "attributes")
                         THEN setElementAttributes(element, description.attributes)
                         ELSE element
       IN IF ~ValidName(description.nodeName) \/ IsRaised(attributed) THEN RAISED
          ELSE appendDescribedChildNodes(attributed, description)
  ELSE NOTHING

\* A slip: the fragment is given the described children, as an element is.
createDescribedFragment_Appending(description, id) ==
  appendDescribedChildNodes(createDocumentFragment(id), description)

\* case NodeType.DOCUMENT_FRAGMENT_NODE
createDescribedFragment(description, id) == createDocumentFragment(id)

createDescribedNode(description, id) ==
  CASE description.nodeType = TEXT_NODE ->
         createTextNode(ValueOrEmpty(description), id)
    [] description.nodeType = ELEMENT_NODE ->
         createDescribedElement(description, id)
    [] description.nodeType = ATTRIBUTE_NODE ->
         IF NotNull(description, "nodeName")
         THEN IF ValidName(description.nodeName)
              THEN createAttributeNode(description.nodeName,
                     IF NotNull(description, "nodeValue") THEN description.nodeValue
                     ELSE "",
                     id)
              ELSE RAISED
         ELSE NOTHING
    [] description.nodeType = CDATA_SECTION_NODE ->
         createCDATASection(ValueOrEmpty(description), id)
    [] description.nodeType = COMMENT_NODE ->
         createComment(ValueOrEmpty(description), id)
    [] description.nodeType = PROCESSING_INSTRUCTION_NODE ->
         IF NotNull(description, "nodeName")
         THEN IF ValidName(description.nodeName)
              THEN createProcessingInstruction(description.nodeName,
                     ValueOrEmpty(description), id)
              ELSE RAISED
         ELSE NOTHING
    [] description.nodeType = DOCUMENT_FRAGMENT_NODE ->
         createDescribedFragment(description, id)
    [] OTHER -> NOTHING

(***************************************************************************)
(* The description factories                                               *)
(***************************************************************************)
\* attributes is NOTHING and childNodes is NO_LIST when the argument is not
\* passed
createElementDescription(tag, attributes, childNodes) ==
  LET description == [nodeType |-> ELEMENT_NODE, nodeName |-> tag]
      attributed == IF ~IsNothing(attributes)
                    THEN Put(description, "attributes", attributes) ELSE description
  IN IF ~IsNoList(childNodes)
     THEN Put(attributed, "childNodes", childNodes) ELSE attributed

createAttributeDescription(name, value) ==
  [nodeType |-> ATTRIBUTE_NODE, nodeName |-> name, nodeValue |-> value]

\* A slip: the reserved name is left out.
createTextNodeDescription_Nameless(text) ==
  [nodeType |-> TEXT_NODE, nodeValue |-> text]

createTextNodeDescription(text) ==
  [nodeType |-> TEXT_NODE, nodeName |-> TEXT_NODE_NAME, nodeValue |-> text]

createCommentDescription(text) ==
  [nodeType |-> COMMENT_NODE, nodeName |-> COMMENT_NODE_NAME, nodeValue |-> text]

createCDataDescription(data) ==
  [nodeType |-> CDATA_SECTION_NODE, nodeName |-> CDATA_SECTION_NODE_NAME,
   nodeValue |-> data]

createProcessingInstructionDescription(target, data) ==
  [nodeType |-> PROCESSING_INSTRUCTION_NODE, nodeName |-> target, nodeValue |-> data]

createFragmentDescription(childNodes) ==
  LET description == [nodeType |-> DOCUMENT_FRAGMENT_NODE,
                      nodeName |-> DOCUMENT_FRAGMENT_NODE_NAME]
  IN IF ~IsNoList(childNodes)
     THEN Put(description, "childNodes", childNodes) ELSE description

(***************************************************************************)
(* attributesMatchDescription, nodeMatchesDescription,                     *)
(* nodeListMatchesDescription                                              *)
(***************************************************************************)
\* A slip: the final comparison of the counts is left out.
attributesMatchDescription_Subset(attributes, description) ==
  \A key \in DOMAIN description :
    LET attribute == getNamedItem(attributes, key)
    IN ~IsNothing(attribute) /\ description[key] = attribute.value

\* Every key must be found with its value (else false at once); count is then
\* the number of keys.
attributesMatchDescription(attributes, description) ==
  IF \A key \in DOMAIN description :
       LET attribute == getNamedItem(attributes, key)
       IN ~IsNothing(attribute) /\ description[key] = attribute.value
  THEN Len(attributes) = Cardinality(DOMAIN description)
  ELSE FALSE

RECURSIVE nodeMatchesDescription(_, _)
RECURSIVE nodeListMatchesDescription(_, _)

\* A slip: the final comparison of the lengths is left out.
nodeListMatchesDescription_Prefix(nodes, descriptions) ==
  \A i \in 1..Len(descriptions) :
    i <= Len(nodes) /\ nodeMatchesDescription(nodes[i], descriptions[i])

nodeListMatchesDescription(nodes, descriptions) ==
  IF \A i \in 1..Len(descriptions) :
       i <= Len(nodes) /\ nodeMatchesDescription(nodes[i], descriptions[i])
  THEN Len(nodes) = Len(descriptions)
  ELSE FALSE

nodeMatchesDescription(n, description) ==
  IF n.nodeType # description.nodeType THEN FALSE
  ELSE IF NotNull(description, "nodeName") /\ n.nodeName # description.nodeName
  THEN FALSE
  ELSE IF NotNull(description, "nodeValue") /\ n.nodeValue # description.nodeValue
  THEN FALSE
  ELSE IF IsElement(n)
          /\ ~attributesMatchDescription(n.attributes,
                IF Has(description, "attributes") THEN description.attributes ELSE <<>>)
  THEN FALSE
  ELSE IF ~IsElement(n) /\ Has(description, "attributes") THEN FALSE
  ELSE nodeListMatchesDescription(n.childNodes,
         IF Has(description, "childNodes") THEN description.childNodes ELSE <<>>)

(***************************************************************************)
(* applyDescribedAttributeChanges                                          *)
(***************************************************************************)
\* The first loop: create the missing attributes, rewrite the differing ones.
RECURSIVE writeDescribedAttributes(_, _, _)
writeDescribedAttributes(attributes, description, keys) ==
  IF keys = <<>> THEN attributes
  ELSE LET key == Head(keys)
           attribute == getNamedItem(attributes, key)
           value == description[key]
       IN IF IsNothing(attribute)
          THEN writeDescribedAttributes(
                 setNamedItem(attributes, [createAttribute(key) EXCEPT !.value = value]),
                 description, Tail(keys))
          ELSE IF attribute.value # value
          THEN writeDescribedAttributes(setAttributeValue(attributes, key, value),
                                        description, Tail(keys))
          ELSE writeDescribedAttributes(attributes, description, Tail(keys))

\* The second loop: i walks the live collection upwards while items are removed
\* from it; i here is the source's i + 1.
RECURSIVE removeUndescribedAttributes(_, _, _)
removeUndescribedAttributes(attributes, description, i) ==
  IF i > Len(attributes) THEN attributes
  ELSE IF attributes[i].name \in DOMAIN description
  THEN removeUndescribedAttributes(attributes, description, i + 1)
  ELSE removeUndescribedAttributes(
         removeNamedItem(attributes, attributes[i].name), description, i + 1)

applyDescribedAttributeChanges(attributes, description) ==
  removeUndescribedAttributes(
    writeDescribedAttributes(attributes, description, KeysOf(DOMAIN description)),
    description, 1)

(***************************************************************************)
(* applyDescribedNodeChanges, setChildNodesFromDescriptions                *)
(* id is the identity a node created for this position takes.              *)
(* applyDescribedNodeChanges yields the node as it is left (node) and the  *)
(* value returned (returned).                                              *)
(***************************************************************************)
RECURSIVE applyDescribedNodeChanges(_, _, _)
RECURSIVE setChildNodesFromDescriptions(_, _, _)
RECURSIVE patchChildNodesFrom(_, _, _, _)

\* A slip: the loop's comparison is turned around and nothing is trimmed.
trimChildNodes_Never(n, length) == n

\* while (node.childNodes.length > descriptions.length) remove the last child
RECURSIVE trimChildNodes(_, _)
trimChildNodes(n, length) ==
  IF Len(n.childNodes) > length /\ Len(n.childNodes) > 0
  THEN trimChildNodes(removeLastChild(n), length)
  ELSE n

\* A slip: the node types are compared instead of the node names.
sameNodeName_ByType(n, description) == n.nodeType = description.nodeType

\* node.nodeName === description.nodeName
sameNodeName(n, description) ==
  Has(description, "nodeName") /\ n.nodeName = description.nodeName

\* A slip: a description without childNodes is taken to describe no children.
applyDescribedNodeChanges_ClearChildren(n, description, id) ==
  IF sameNodeName(n, description)
  THEN LET valued ==
             IF /\ IsCharacterData(n)
                /\ NotNull(description, "nodeValue")
                /\ n.nodeValue # description.nodeValue
             THEN [n EXCEPT !.nodeValue = description.nodeValue]
             ELSE n
           attributed ==
             IF IsElement(valued)
             THEN [valued EXCEPT !.attributes =
                     applyDescribedAttributeChanges(@,
                       IF Has(description, "attributes")
                       THEN description.attributes ELSE <<>>)]
             ELSE valued
           patched ==
             IF Has(description, "childNodes")
             THEN setChildNodesFromDescriptions(attributed, description.childNodes, id)
             ELSE setChildNodesFromDescriptions(attributed, <<>>, id)
       IN [node |-> patched, returned |-> patched]
  ELSE [node |-> n, returned |-> createDescribedNode(description, id)]

applyDescribedNodeChanges(n, description, id) ==
  IF sameNodeName(n, description)
  THEN LET valued ==
             IF /\ IsCharacterData(n)
                /\ NotNull(description, "nodeValue")
                /\ n.nodeValue # description.nodeValue
             THEN [n EXCEPT !.nodeValue = description.nodeValue]
             ELSE n
           attributed ==
             IF IsElement(valued)
             THEN [valued EXCEPT !.attributes =
                     applyDescribedAttributeChanges(@,
                       IF Has(description, "attributes")
                       THEN description.attributes ELSE <<>>)]
             ELSE valued
           patched ==
             IF Has(description, "childNodes")
             THEN setChildNodesFromDescriptions(attributed, description.childNodes, id)
             ELSE attributed
       IN [node |-> patched, returned |-> patched]
  ELSE [node |-> n, returned |-> createDescribedNode(description, id)]

\* for (let i = 0; i < descriptions.length; i++); i here is the source's i + 1
\* The descriptions of DescriptionPool give the host no name or child it
\* refuses, so createDescribedNode yields a node or NOTHING here, never RAISED.
patchChildNodesFrom(n, descriptions, i, id) ==
  IF i > Len(descriptions) THEN n
  ELSE LET description == descriptions[i]
       IN IF i <= Len(n.childNodes)
          THEN LET child == n.childNodes[i]
                   applied == applyDescribedNodeChanges(child, description, id \o <<i>>)
                   updatedChild == applied.returned
                   inPlace == [n EXCEPT !.childNodes[i] = applied.node]
               IN IF ~IsNothing(updatedChild) /\ child.id # updatedChild.id
                  THEN patchChildNodesFrom(replaceChild(inPlace, updatedChild, i),
                                           descriptions, i + 1, id)
                  ELSE patchChildNodesFrom(inPlace, descriptions, i + 1, id)
          ELSE LET newChild == createDescribedNode(description, id \o <<i>>)
               IN IF ~IsNothing(newChild)
                  THEN patchChildNodesFrom(appendChild(n, newChild),
                                           descriptions, i + 1, id)
                  ELSE patchChildNodesFrom(n, descriptions, i + 1, id)

setChildNodesFromDescriptions(n, descriptions, id) ==
  patchChildNodesFrom(trimChildNodes(n, Len(descriptions)), descriptions, 1, id)

(***************************************************************************)
(* DOMDescriptionToShorthand, addChildNodesToShorthand,                    *)
(* shorthandToDOMDescription, getShorthandContentDescription               *)
(***************************************************************************)
RECURSIVE DOMDescriptionToShorthand(_)
RECURSIVE shorthandToDOMDescription(_)

RECURSIVE addChildShorthandsFrom(_, _, _)
addChildShorthandsFrom(content, childNodes, i) ==
  IF i > Len(childNodes) THEN content
  ELSE LET childShorthand == DOMDescriptionToShorthand(childNodes[i])
       IN IF ~IsNothing(childShorthand)
          THEN addChildShorthandsFrom(Append(content, childShorthand),
                                      childNodes, i + 1)
          ELSE addChildShorthandsFrom(content, childNodes, i + 1)

\* A slip: an empty child list gives no content.
addChildNodesToShorthand_NonEmpty(description, shorthand) ==
  IF Has(description, "childNodes") /\ Len(description.childNodes) > 0
  THEN Put(shorthand, "content", addChildShorthandsFrom(<<>>, description.childNodes, 1))
  ELSE shorthand

addChildNodesToShorthand(description, shorthand) ==
  IF Has(description, "childNodes")
  THEN Put(shorthand, "content", addChildShorthandsFrom(<<>>, description.childNodes, 1))
  ELSE shorthand

\* description.nodeName ?? ''
NameOrEmpty(description) ==
  IF NotNull(description, "nodeName") THEN description.nodeName ELSE ""

\* A slip: the attributes map is copied even when it is empty.
DOMDescriptionToShorthand_EmptyAttributes(description) ==
  CASE description.nodeType = TEXT_NODE ->
         [string |-> ValueOrEmpty(description)]
    [] description.nodeType = ELEMENT_NODE ->
         LET shorthand == [tag |-> NameOrEmpty(description)]
             attributed ==
               IF Has(description, "attributes")
               THEN Put(shorthand, "attributes", description.attributes)
               ELSE shorthand
         IN addChildNodesToShorthand(description, attributed)
    [] description.nodeType = ATTRIBUTE_NODE ->
         [name |-> NameOrEmpty(description),
          value |-> IF NotNull(description, "nodeValue")
                    THEN description.nodeValue ELSE NULL]
    [] description.nodeType = CDATA_SECTION_NODE ->
         [cData |-> ValueOrEmpty(description)]
    [] description.nodeType = COMMENT_NODE ->
         [comment |-> ValueOrEmpty(description)]
    [] description.nodeType = PROCESSING_INSTRUCTION_NODE ->
         [target |-> NameOrEmpty(description), data |-> ValueOrEmpty(description)]
    [] description.nodeType = DOCUMENT_FRAGMENT_NODE ->
         addChildNodesToShorthand(description, <<>>)
    [] OTHER -> NOTHING

DOMDescriptionToShorthand(description) ==
  CASE description.nodeType = TEXT_NODE ->
         [string |-> ValueOrEmpty(description)]
    [] description.nodeType = ELEMENT_NODE ->
         LET shorthand == [tag |-> NameOrEmpty(description)]
             attributed ==
               IF /\ Has(description, "attributes")
                  /\ Cardinality(DOMAIN description.attributes) > 0
               THEN Put(shorthand, "attributes", description.attributes)
               ELSE shorthand
         IN addChildNodesToShorthand(description, attributed)
    [] description.nodeType = ATTRIBUTE_NODE ->
         [name |-> NameOrEmpty(description),
          value |-> IF NotNull(description, "nodeValue")
                    THEN description.nodeValue ELSE NULL]
    [] description.nodeType = CDATA_SECTION_NODE ->
         [cData |-> ValueOrEmpty(description)]
    [] description.nodeType = COMMENT_NODE ->
         [comment |-> ValueOrEmpty(description)]
    [] description.nodeType = PROCESSING_INSTRUCTION_NODE ->
         [target |-> NameOrEmpty(description), data |-> ValueOrEmpty(description)]
    [] description.nodeType = DOCUMENT_FRAGMENT_NODE ->
         addChildNodesToShorthand(description, <<>>)
    [] OTHER -> NOTHING

\* A slip: an empty content array is taken for no content.
getShorthandContentDescription_NonEmpty(shorthand) ==
  IF Has(shorthand, "content") /\ Len(shorthand.content) > 0
  THEN [i \in 1..Len(shorthand.content) |->
          shorthandToDOMDescription(shorthand.content[i])]
  ELSE NO_LIST

\* The child descriptions of shorthand.content, or NO_LIST without content.
getShorthandContentDescription(shorthand) ==
  IF Has(shorthand, "content")
  THEN [i \in 1..Len(shorthand.content) |->
          shorthandToDOMDescription(shorthand.content[i])]
  ELSE NO_LIST

\* A slip: the Attribute test comes before the Element test.
shorthandToDOMDescription_AttributeFirst(shorthand) ==
  IF Has(shorthand, "string")
  THEN createTextNodeDescription(shorthand.string)
  ELSE IF Has(shorthand, "name") /\ Has(shorthand, "value")
  THEN createAttributeDescription(shorthand.name, shorthand.value)
  ELSE IF Has(shorthand, "tag")
  THEN createElementDescription(shorthand.tag,
         IF Has(shorthand, "attributes") THEN shorthand.attributes ELSE NOTHING,
         getShorthandContentDescription(shorthand))
  ELSE IF Has(shorthand, "cData")
  THEN createCDataDescription(shorthand.cData)
  ELSE IF Has(shorthand, "target") /\ Has(shorthand, "data")
  THEN createProcessingInstructionDescription(shorthand.target, shorthand.data)
  ELSE IF Has(shorthand, "comment")
  THEN createCommentDescription(shorthand.comment)
  ELSE createFragmentDescription(getShorthandContentDescription(shorthand))

shorthandToDOMDescription(shorthand) ==
  IF Has(shorthand, "string")
  THEN createTextNodeDescription(shorthand.string)
  ELSE IF Has(shorthand, "tag")
  THEN createElementDescription(shorthand.tag,
         IF Has(shorthand, "attributes") THEN shorthand.attributes ELSE NOTHING,
         getShorthandContentDescription(shorthand))
  ELSE IF Has(shorthand, "name") /\ Has(shorthand, "value")
  THEN createAttributeDescription(shorthand.name, shorthand.value)
  ELSE IF Has(shorthand, "cData")
  THEN createCDataDescription(shorthand.cData)
  ELSE IF Has(shorthand, "target") /\ Has(shorthand, "data")
  THEN createProcessingInstructionDescription(shorthand.target, shorthand.data)
  ELSE IF Has(shorthand, "comment")
  THEN createCommentDescription(shorthand.comment)
  ELSE createFragmentDescription(getShorthandContentDescription(shorthand))

(***************************************************************************)
(* shorthandToHTML.  The text is the sequence of its pieces: the literal   *)
(* pieces of the templates and the strings the shorthand supplies, an      *)
(* empty string adding no piece.                                           *)
(***************************************************************************)
\* The piece a supplied string adds to the text.
Piece(string) == IF string = "" THEN <<>> ELSE <<string>>

\* String(shorthand.value)
StringOf(value) == IF value = NULL THEN "null" ELSE value

\* for (const key in shorthand.attributes) html += ` ${key}="${value}"`
RECURSIVE attributesToHTML(_, _)
attributesToHTML(attributes, keys) ==
  IF keys = <<>> THEN <<>>
  ELSE <<" ">> \o Piece(Head(keys)) \o <<"=\"">> \o Piece(attributes[Head(keys)])
         \o <<"\"">> \o attributesToHTML(attributes, Tail(keys))

\* The branch shorthandToHTML takes for an object, named by the kind whose
\* markup it emits; the last branch emits the empty text.
HTMLBranch(shorthand) ==
  IF Has(shorthand, "tag") THEN ELEMENT_NODE
  ELSE IF Has(shorthand, "content") THEN DOCUMENT_FRAGMENT_NODE
  ELSE IF Has(shorthand, "comment") THEN COMMENT_NODE
  ELSE IF Has(shorthand, "cData") THEN CDATA_SECTION_NODE
  ELSE IF Has(shorthand, "target") /\ Has(shorthand, "data")
  THEN PROCESSING_INSTRUCTION_NODE
  ELSE IF Has(shorthand, "name") /\ Has(shorthand, "value") THEN ATTRIBUTE_NODE
  ELSE 0

RECURSIVE shorthandToHTML(_)
RECURSIVE contentToHTML(_, _)
\* for (const item of shorthand.content) html += shorthandToHTML(item)
contentToHTML(content, i) ==
  IF i > Len(content) THEN <<>>
  ELSE shorthandToHTML(content[i]) \o contentToHTML(content, i + 1)

\* A slip: the closing form is decided by the length of content.
elementToHTML_ByLength(shorthand) ==
  LET html == <<"<">> \o Piece(shorthand.tag)
                \o (IF Has(shorthand, "attributes")
                    THEN attributesToHTML(shorthand.attributes,
                                          KeysOf(DOMAIN shorthand.attributes))
                    ELSE <<>>)
  IN IF Has(shorthand, "content") /\ Len(shorthand.content) > 0
     THEN html \o <<">">> \o contentToHTML(shorthand.content, 1)
               \o <<"</">> \o Piece(shorthand.tag) \o <<">">>
     ELSE html \o <<"/>">>

\* if ('tag' in shorthand).  A content that is there is a list: a content of
\* null is no content to this function and to getShorthandContentDescription.
elementToHTML(shorthand) ==
  LET html == <<"<">> \o Piece(shorthand.tag)
                \o (IF Has(shorthand, "attributes")
                    THEN attributesToHTML(shorthand.attributes,
                                          KeysOf(DOMAIN shorthand.attributes))
                    ELSE <<>>)
  IN IF Has(shorthand, "content")
     THEN html \o <<">">> \o contentToHTML(shorthand.content, 1)
               \o <<"</">> \o Piece(shorthand.tag) \o <<">">>
     ELSE html \o <<"/>">>

shorthandToHTML(shorthand) ==
  IF Has(shorthand, "string") THEN Piece(shorthand.string)
  ELSE LET branch == HTMLBranch(shorthand)
       IN CASE branch = ELEMENT_NODE -> elementToHTML(shorthand)
            [] branch = DOCUMENT_FRAGMENT_NODE -> contentToHTML(shorthand.content, 1)
            [] branch = COMMENT_NODE ->
                 <<"<!--">> \o Piece(shorthand.comment) \o <<"-->">>
            [] branch = CDATA_SECTION_NODE ->
                 <<"<![CDATA[ ">> \o Piece(shorthand.cData) \o <<" ]]>">>
            [] branch = PROCESSING_INSTRUCTION_NODE ->
                 <<"<!--">> \o Piece(shorthand.target) \o <<" ">>
                   \o Piece(shorthand.data) \o <<"-->">>
            [] branch = ATTRIBUTE_NODE ->
                 Piece(shorthand.name) \o <<"=\"">>
                   \o Piece(StringOf(shorthand.value)) \o <<"\"">>
            [] OTHER -> <<>>

(***************************************************************************)
(* validateDOMShorthand.  A value of unknown type is a record with one of  *)
(* the keys string, number, boolean, undefined, null or array when it is   *)
(* that sort of value, and the object itself otherwise.                    *)
(***************************************************************************)
\* typeof target
TypeOf(target) ==
  CASE Has(target, "string") -> "string"
    [] Has(target, "number") -> "number"
    [] Has(target, "boolean") -> "boolean"
    [] Has(target, "undefined") -> "undefined"
    [] OTHER -> "object"

\* Object.keys(target): the indices of an array, the keys of an object
ObjectKeys(target) ==
  IF Has(target, "array")
  THEN {<<"0", "1", "2">>[i] : i \in 1..Len(target.array)}
  ELSE DOMAIN target

\* key in target
In(key, target) == key \in ObjectKeys(target)

\* A slip: content is accepted whatever other keys come with it.
validateDOMShorthand_AnyContent(target) ==
  CASE TypeOf(target) = "string" -> target
    [] TypeOf(target) = "object" ->
         IF ~Has(target, "null")
         THEN IF \/ In("tag", target)
                 \/ In("name", target) /\ In("value", target)
                 \/ In("cData", target)
                 \/ In("target", target) /\ In("data", target)
                 \/ In("comment", target)
              THEN target
              ELSE IF \/ Cardinality(ObjectKeys(target)) < 1
                      \/ In("content", target)
                   THEN target
                   ELSE NOTHING
         ELSE NOTHING
    [] OTHER -> NOTHING

validateDOMShorthand(target) ==
  CASE TypeOf(target) = "string" -> target
    [] TypeOf(target) = "object" ->
         IF ~Has(target, "null")
         THEN IF In("tag", target) THEN target
              ELSE IF In("name", target) /\ In("value", target) THEN target
              ELSE IF In("cData", target) THEN target
              ELSE IF In("target", target) /\ In("data", target) THEN target
              ELSE IF In("comment", target) THEN target
              ELSE IF \/ Cardinality(ObjectKeys(target)) < 1
                      \/ ObjectKeys(target) = {"content"}
                   THEN target
                   ELSE NOTHING
         ELSE NOTHING
    [] OTHER -> NOTHING

(***************************************************************************)
(* The live trees and the descriptions the operations are applied to.      *)
(***************************************************************************)
\* The most children a live node starts with, and the most descriptions in a
\* list handed to setChildNodesFromDescriptions.
MaxLive == 3
MaxDescs == 2

SeqsUpTo(S, n) == UNION {[1..k -> S] : k \in 0..n}

\* The tree n with identities: id for n, id \o <<i>> for its i-th child.
RECURSIVE WithIds(_, _)
WithIds(n, id) ==
  [n EXCEPT !.id = id,
            !.childNodes = [i \in 1..Len(n.childNodes) |->
                              WithIds(n.childNodes[i], id \o <<i>>)]]

\* The identities of the nodes of a child list, at every depth.
RECURSIVE IdsOf(_)
IdsOf(nodes) ==
  UNION {{nodes[i].id} \cup IdsOf(nodes[i].childNodes) : i \in 1..Len(nodes)}

LiveAttribute(name, value) == [name |-> name, localName |-> name, value |-> value]

LiveElement(tagName, attributes, childNodes) ==
  [createElement(tagName, <<>>) EXCEPT !.attributes = attributes,
                                       !.childNodes = childNodes]

\* The children a live node may start with: a text, an element with two
\* attributes and a text child, an empty element.
LiveChildPool ==
  { createTextNode("x", <<>>),
    LiveElement("A", <<LiveAttribute("a", "1"), LiveAttribute("b", "2")>>,
                <<createTextNode("x", <<>>)>>),
    LiveElement("B", <<>>, <<>>) }

LiveRoots ==
  { WithIds(LiveElement("DIV", <<>>, childNodes), <<0>>) :
      childNodes \in SeqsUpTo(LiveChildPool, MaxLive) }

\* The child descriptions: kind-consistent descriptions of the kinds a child
\* list holds, with and without their optional keys, and the descriptions
\* without the name their kind needs.
DescriptionPool ==
  { [nodeType |-> TEXT_NODE, nodeName |-> TEXT_NODE_NAME, nodeValue |-> "y"],
    [nodeType |-> TEXT_NODE, nodeValue |-> "x"],
    [nodeType |-> ELEMENT_NODE, nodeName |-> "A", attributes |-> [a |-> "1"],
     childNodes |-> <<[nodeType |-> TEXT_NODE, nodeName |-> TEXT_NODE_NAME,
                       nodeValue |-> "y"]>>],
    [nodeType |-> ELEMENT_NODE, nodeName |-> "A"],
    [nodeType |-> ELEMENT_NODE, nodeName |-> "A", attributes |-> <<>>,
     childNodes |-> <<[nodeType |-> TEXT_NODE, nodeName |-> TEXT_NODE_NAME,
                       nodeValue |-> "x"]>>],
    [nodeType |-> ELEMENT_NODE, nodeName |-> "B", attributes |-> <<>>,
     childNodes |-> <<>>],
    [nodeType |-> ELEMENT_NODE, nodeName |-> "B",
     childNodes |-> <<[nodeType |-> ELEMENT_NODE],
                      [nodeType |-> COMMENT_NODE, nodeName |-> COMMENT_NODE_NAME,
                       nodeValue |-> "x"]>>],
    [nodeType |-> ELEMENT_NODE, attributes |-> [a |-> "1"]],
    [nodeType |-> ATTRIBUTE_NODE, nodeValue |-> "x"],
    [nodeType |-> PROCESSING_INSTRUCTION_NODE, nodeValue |-> "x"] }

DescriptionLists == SeqsUpTo(DescriptionPool, MaxDescs)

(***************************************************************************)
(* Spec: one reconciliation call on a live tree.                           *)
(* op is the call made, before the tree as it was, node the tree as it is  *)
(* left, input the arguments and output the value returned.                *)
(***************************************************************************)
Init ==
  /\ op = "init"
  /\ node \in LiveRoots
  /\ before = node
  /\ input = NOTHING
  /\ output = NOTHING

\* setChildNodesFromDescriptions(node, descriptions)
SetChildNodes(descriptions) ==
  /\ op = "init"
  /\ op' = "setChildNodesFromDescriptions"
  /\ before' = node
  /\ input' = descriptions
  /\ node' = setChildNodesFromDescriptions(node, descriptions, <<1>>)
  /\ output' = NOTHING

\* applyDescribedNodeChanges(node.childNodes.item(i - 1), description)
ApplyNodeChanges(i, description) ==
  /\ op = "init"
  /\ i \in 1..Len(node.childNodes)
  /\ LET applied == applyDescribedNodeChanges(node.childNodes[i], description, <<1, i>>)
     IN /\ node' = [node EXCEPT !.childNodes[i] = applied.node]
        /\ output' = applied.returned
  /\ op' = "applyDescribedNodeChanges"
  /\ before' = node
  /\ input' = [index |-> i, description |-> description]

\* setChildNodesFromDescriptions(node, descriptions) once more, with the list
\* of the call before
SetChildNodesAgain ==
  /\ op = "setChildNodesFromDescriptions"
  /\ op' = "setChildNodesFromDescriptions again"
  /\ before' = node
  /\ node' = setChildNodesFromDescriptions(node, input, <<2>>)
  /\ UNCHANGED <<input, output>>

Next ==
  \/ \E descriptions \in DescriptionLists : SetChildNodes(descriptions)
  \/ SetChildNodesAgain
  \/ \E i \in 1..MaxLive, description \in DescriptionPool :
       ApplyNodeChanges(i, description)

Spec == Init /\ [][Next]_vars

(***************************************************************************)
(* Claims about setChildNodesFromDescriptions and applyDescribedNodeChanges *)
(***************************************************************************)
\* The description is one that materializes: a Text, CDataSection or Comment,
\* or an Element or ProcessingInstruction that has its name.
Materializes(description) ==
  \/ description.nodeType \in {TEXT_NODE, CDATA_SECTION_NODE, COMMENT_NODE}
  \/ /\ description.nodeType \in {ELEMENT_NODE, PROCESSING_INSTRUCTION_NODE}
     /\ Has(description, "nodeName")

\* description and every description nested in its childNodes materialize
RECURSIVE MaterializesDeep(_)
MaterializesDeep(description) ==
  /\ Materializes(description)
  /\ Has(description, "childNodes") =>
       \A i \in 1..Len(description.childNodes) :
         MaterializesDeep(description.childNodes[i])

\* The live node and the description bear the same name.
SameName(n, description) ==
  Has(description, "nodeName") /\ n.nodeName = description.nodeName

AfterSetChildNodes == op = "setChildNodesFromDescriptions"

AfterApplyNodeChanges == op = "applyDescribedNodeChanges"

Min(a, b) == IF a < b THEN a ELSE b

\* C1: after setChildNodesFromDescriptions(node, ds), for ds whose descriptions
\* all materialize (recursively), nodeListMatchesDescription(node.childNodes, ds)
\* is true.
C1_ChildrenMatchDescriptions ==
  (AfterSetChildNodes /\ \A i \in 1..Len(input) : MaterializesDeep(input[i]))
    => nodeListMatchesDescription(node.childNodes, input)

C7_NameMismatchLeavesNodeUntouched ==
  (AfterApplyNodeChanges
   /\ ~SameName(before.childNodes[input.index], input.description)) =>
    /\ node = before
    /\ IF Materializes(input.description)
       THEN /\ ~IsNothing(output)
            /\ output.id \notin IdsOf(<<before>>)
            /\ output = createDescribedNode(input.description, output.id)
       ELSE IsNothing(output)

\* C7's case: an element with attributes and a child met a description of
\* another name that materializes.
C7_Witness ==
  /\ AfterApplyNodeChanges
  /\ ~SameName(before.childNodes[input.index], input.description)
  /\ Has(input.description, "nodeName")
  /\ ~IsNothing(output)
  /\ Len(before.childNodes[input.index].childNodes) > 0
  /\ Len(before.childNodes[input.index].attributes) > 0

RECURSIVE MaterializedFrom(_, _)
MaterializedFrom(descriptions, i) ==
  IF i > Len(descriptions) THEN <<>>
  ELSE LET made == createDescribedNode(descriptions[i], <<1, i>>)
       IN (IF IsNothing(made) THEN <<>> ELSE <<made>>)
            \o MaterializedFrom(descriptions, i + 1)

\* C10: a description that does not materialize contributes no node: a live
\* child at its index stays as it was, nothing is appended where no live child
\* exists, and the later descriptions still append their nodes, in order, so the
\* final child count is the live children kept plus the later descriptions that
\* materialize.
C10_UnmaterializableContributesNothing ==
  AfterSetChildNodes =>
    LET kept == Min(Len(before.childNodes), Len(input))
    IN /\ \A i \in 1..kept :
            ~Materializes(input[i]) => node.childNodes[i] = before.childNodes[i]
       /\ Len(node.childNodes) =
            kept + Cardinality({i \in (kept + 1)..Len(input) : Materializes(input[i])})
       /\ SubSeq(node.childNodes, kept + 1, Len(node.childNodes)) =
            MaterializedFrom(input, kept + 1)

\* C10's case: no live child at the index of a description that does not
\* materialize, a later description that does, and fewer children than
\* descriptions in the end.
C10_Witness ==
  /\ AfterSetChildNodes
  /\ \E i, j \in 1..Len(input) :
       /\ i > Len(before.childNodes)
       /\ ~Materializes(input[i])
       /\ j > i
       /\ Materializes(input[j])
  /\ Len(node.childNodes) < Len(input)
  /\ Len(node.childNodes) > Len(before.childNodes)

(***************************************************************************)
(* SpecAttributes: applyDescribedAttributeChanges on an element's          *)
(* attribute collection.                                                   *)
(***************************************************************************)
AttributeNames == {"a", "b", "c"}
AttributeValues == {"1", "2"}

\* The live collections: every order of every choice of distinct names.
LiveAttributeLists ==
  { attributes \in SeqsUpTo({LiveAttribute(name, value) :
                               name \in AttributeNames, value \in AttributeValues},
                            Cardinality(AttributeNames)) :
      \A i, j \in 1..Len(attributes) :
        attributes[i].name = attributes[j].name => i = j }

RequiredMaps ==
  UNION {[names -> AttributeValues] : names \in SUBSET AttributeNames}

InitAttributes ==
  /\ op = "init"
  /\ node \in {WithIds(LiveElement("IMG", attributes, <<>>), <<0>>) :
                 attributes \in LiveAttributeLists}
  /\ before = node
  /\ input = NOTHING
  /\ output = NOTHING

\* applyDescribedAttributeChanges(node.attributes, description)
ApplyAttributeChanges(description) ==
  /\ op = "init"
  /\ op' = "applyDescribedAttributeChanges"
  /\ before' = node
  /\ input' = description
  /\ node' = [node EXCEPT !.attributes = applyDescribedAttributeChanges(@, description)]
  /\ output' = NOTHING

NextAttributes == \E description \in RequiredMaps : ApplyAttributeChanges(description)

SpecAttributes == InitAttributes /\ [][NextAttributes]_vars

\* C3: after applyDescribedAttributeChanges(liveAttributes, requiredMap) the live
\* (name, value) pairs are exactly those of requiredMap: every required key is
\* there with its value and no other attribute remains.
C3_AttributesBecomeRequiredMap ==
  op = "applyDescribedAttributeChanges" =>
    /\ {<<node.attributes[i].name, node.attributes[i].value>> :
          i \in 1..Len(node.attributes)}
         = {<<key, input[key]>> : key \in DOMAIN input}
    /\ Len(node.attributes) = Cardinality(DOMAIN input)

(***************************************************************************)
(* SpecCodec: describeNode of a live node of any kind, then                *)
(* createDescribedNode or nodeMatchesDescription on that description.      *)
(* node is the live node, input the argument of the last call and output   *)
(* its result.                                                             *)
(***************************************************************************)
\* An attribute in a namespace, with a prefix: xlink:href
PrefixedAttribute(prefix, localName, value) ==
  [name |-> prefix \o ":" \o localName, localName |-> localName, value |-> value]

DocumentTypeNode ==
  [id |-> <<>>, nodeType |-> DOCUMENT_TYPE_NODE, nodeName |-> "html",
   nodeValue |-> NULL, childNodes |-> <<>>]

DocumentNode ==
  [id |-> <<>>, nodeType |-> DOCUMENT_NODE, nodeName |-> DOCUMENT_NODE_NAME,
   nodeValue |-> NULL,
   childNodes |-> <<DocumentTypeNode, LiveElement("HTML", <<>>, <<>>)>>]

CodecNodes ==
  LiveRoots \cup
  { WithIds(n, <<0>>) : n \in
      { LiveElement("use", <<PrefixedAttribute("xlink", "href", "x")>>, <<>>),
        LiveElement("A", <<PrefixedAttribute("p", "a", "1"), LiveAttribute("a", "2")>>,
                    <<>>),
        createAttributeNode("a", "1", <<>>),
        createAttributeNode("a", "", <<>>),
        createTextNode("x", <<>>),
        createTextNode("", <<>>),
        createCDATASection("x", <<>>),
        createComment("x", <<>>),
        createProcessingInstruction("xml", "x", <<>>),
        DocumentNode,
        DocumentTypeNode,
        createDocumentFragment(<<>>),
        [createDocumentFragment(<<>>) EXCEPT
           !.childNodes = <<createTextNode("x", <<>>), LiveElement("B", <<>>, <<>>)>>] } }

InitCodec ==
  /\ op = "init"
  /\ node \in CodecNodes
  /\ before = node
  /\ input = NOTHING
  /\ output = NOTHING

\* describeNode(node)
DescribeNode ==
  /\ op = "init"
  /\ op' = "describeNode"
  /\ input' = node
  /\ output' = describeNode(node)
  /\ UNCHANGED <<node, before>>

\* createDescribedNode(description), description being the snapshot just taken
CreateDescribedNode ==
  /\ op = "describeNode"
  /\ op' = "createDescribedNode"
  /\ input' = output
  /\ output' = createDescribedNode(output, <<1>>)
  /\ UNCHANGED <<node, before>>

\* nodeMatchesDescription(node, description), description being the snapshot
\* just taken
NodeMatchesDescription ==
  /\ op = "describeNode"
  /\ op' = "nodeMatchesDescription"
  /\ input' = output
  /\ output' = nodeMatchesDescription(node, output)
  /\ UNCHANGED <<node, before>>

NextCodec ==
  \/ DescribeNode
  \/ CreateDescribedNode
  \/ NodeMatchesDescription

SpecCodec == InitCodec /\ [][NextCodec]_vars

C4_InScope(n) ==
  /\ n.nodeType \notin {DOCUMENT_NODE, DOCUMENT_TYPE_NODE}
  /\ n.nodeType = DOCUMENT_FRAGMENT_NODE => Len(n.childNodes) = 0

C6_SnapshotMatchesNode ==
  op = "nodeMatchesDescription" => output = TRUE

(***************************************************************************)
(* SpecShorthand: DOMDescriptionToShorthand of a description, then         *)
(* shorthandToDOMDescription of the result.  before is the description the *)
(* conversions started from, input the argument of the last call and       *)
(* output its result; there is no live node.                               *)
(***************************************************************************)
ValuedDescriptions ==
  { createTextNodeDescription("x"),
    createTextNodeDescription(""),
    createCDataDescription("x"),
    createCommentDescription("x"),
    createProcessingInstructionDescription("xml", "x"),
    [nodeType |-> TEXT_NODE, nodeName |-> TEXT_NODE_NAME],
    [nodeType |-> TEXT_NODE, nodeValue |-> "x"],
    [nodeType |-> PROCESSING_INSTRUCTION_NODE, nodeName |-> "xml"] }

AttributeDescriptions ==
  { createAttributeDescription("a", "1"),
    createAttributeDescription("a", NULL),
    [nodeType |-> ATTRIBUTE_NODE, nodeName |-> "a"] }

\* The child lists: none, or up to MaxDescs of these.
ChildDescriptionPool ==
  { createTextNodeDescription("x"),
    createCommentDescription("x"),
    createElementDescription("B", [a |-> "1"], <<createTextNodeDescription("y")>>),
    createElementDescription("B", <<>>, NO_LIST) }

ChildDescriptionLists == {NO_LIST} \cup SeqsUpTo(ChildDescriptionPool, MaxDescs)

ElementDescriptions ==
  { createElementDescription("A", attributes, childNodes) :
      attributes \in {NOTHING, <<>>, [a |-> "1", b |-> "2"]},
      childNodes \in ChildDescriptionLists }
  \cup {[nodeType |-> ELEMENT_NODE]}

FragmentDescriptions ==
  { createFragmentDescription(childNodes) : childNodes \in ChildDescriptionLists }
  \cup {[nodeType |-> DOCUMENT_FRAGMENT_NODE]}

ShorthandDescriptions ==
  ValuedDescriptions \cup AttributeDescriptions \cup ElementDescriptions
    \cup FragmentDescriptions
    \cup {[nodeType |-> DOCUMENT_TYPE_NODE, nodeName |-> "html"]}

InitShorthand ==
  /\ op = "init"
  /\ before \in ShorthandDescriptions
  /\ input = before
  /\ output = NOTHING
  /\ node = NOTHING

\* DOMDescriptionToShorthand(description)
ToShorthand ==
  /\ op = "init"
  /\ op' = "DOMDescriptionToShorthand"
  /\ output' = DOMDescriptionToShorthand(input)
  /\ UNCHANGED <<node, before, input>>

\* shorthandToDOMDescription(shorthand), shorthand being the one just made
FromShorthand ==
  /\ op = "DOMDescriptionToShorthand"
  /\ ~IsNothing(output)
  /\ op' = "shorthandToDOMDescription"
  /\ input' = output
  /\ output' = shorthandToDOMDescription(output)
  /\ UNCHANGED <<node, before>>

NextShorthand ==
  \/ ToShorthand
  \/ FromShorthand

SpecShorthand == InitShorthand /\ [][NextShorthand]_vars

\* The name a description of a kind with a fixed name bears.
FixedName(nodeType) ==
  CASE nodeType = TEXT_NODE -> TEXT_NODE_NAME
    [] nodeType = CDATA_SECTION_NODE -> CDATA_SECTION_NODE_NAME
    [] nodeType = COMMENT_NODE -> COMMENT_NODE_NAME
    [] nodeType = DOCUMENT_FRAGMENT_NODE -> DOCUMENT_FRAGMENT_NODE_NAME

\* The description has the form the factories give its kind, at every depth:
\* the kind's keys and no other, the kind's name, a value for the valued kinds.
\* With emptyAttributes FALSE, no element of it has an empty attributes map.
RECURSIVE InFactoryForm(_, _)
InFactoryForm(d, emptyAttributes) ==
  LET childrenInForm ==
        Has(d, "childNodes") =>
          \A i \in 1..Len(d.childNodes) :
            InFactoryForm(d.childNodes[i], emptyAttributes)
  IN CASE d.nodeType \in {TEXT_NODE, CDATA_SECTION_NODE, COMMENT_NODE} ->
            /\ DOMAIN d = {"nodeType", "nodeName", "nodeValue"}
            /\ d.nodeName = FixedName(d.nodeType)
            /\ d.nodeValue # NULL
       [] d.nodeType = PROCESSING_INSTRUCTION_NODE ->
            /\ DOMAIN d = {"nodeType", "nodeName", "nodeValue"}
            /\ d.nodeName # NULL
            /\ d.nodeValue # NULL
       [] d.nodeType = ATTRIBUTE_NODE ->
            /\ DOMAIN d = {"nodeType", "nodeName", "nodeValue"}
            /\ d.nodeName # NULL
       [] d.nodeType = ELEMENT_NODE ->
            /\ {"nodeType", "nodeName"} \subseteq DOMAIN d
            /\ DOMAIN d \subseteq {"nodeType", "nodeName", "attributes", "childNodes"}
            /\ d.nodeName # NULL
            /\ (Has(d, "attributes") /\ ~emptyAttributes) => DOMAIN d.attributes # {}
            /\ childrenInForm
       [] d.nodeType = DOCUMENT_FRAGMENT_NODE ->
            /\ {"nodeType", "nodeName"} \subseteq DOMAIN d
            /\ DOMAIN d \subseteq {"nodeType", "nodeName", "childNodes"}
            /\ d.nodeName = FixedName(d.nodeType)
            /\ childrenInForm
       [] OTHER -> FALSE

FactoryForm(d) == InFactoryForm(d, FALSE)

\* C5 as stated, for the descriptions the factories build: for every description
\* d whose nodes are of kind Element, Attribute, Text, CDataSection, Comment,
\* ProcessingInstruction or DocumentFragment,
\* shorthandToDOMDescription(DOMDescriptionToShorthand(d)) is deep-equal to d.
C5_ShorthandRoundTripAnyDescription ==
  (op = "shorthandToDOMDescription" /\ InFactoryForm(before, TRUE)) =>
    output = before

\* C5 as amended: for every description d that has, at every depth, the form
\* the create*Description factories give its kind (the kind's name, a value for
\* the valued kinds, no other key) and in which no Element has an empty
\* attributes map, shorthandToDOMDescription(DOMDescriptionToShorthand(d)) is
\* deep-equal to d.
C5_ShorthandRoundTrip ==
  (op = "shorthandToDOMDescription" /\ FactoryForm(before)) =>
    /\ input = DOMDescriptionToShorthand(before)
    /\ output = before

\* C5's case: an element with attributes and two children, one of them an
\* element with attributes and a child, converted there and back.
C5_Witness ==
  /\ op = "shorthandToDOMDescription"
  /\ FactoryForm(before)
  /\ before.nodeType = ELEMENT_NODE
  /\ Has(before, "attributes")
  /\ Has(before, "childNodes")
  /\ Len(before.childNodes) = 2
  /\ \E i \in 1..2 : Has(before.childNodes[i], "childNodes")
  /\ Has(input, "content")
  /\ output = before

(***************************************************************************)
(* SpecMatch: nodeMatchesDescription, attributesMatchDescription and       *)
(* nodeListMatchesDescription on a live node and descriptions that agree   *)
(* with it or differ from it in one place.  input is the description       *)
(* argument of the call and output the boolean returned.                   *)
(***************************************************************************)
\* object without key
Without(object, key) == [k \in DOMAIN object \ {key} |-> object[k]]

\* Descriptions put where a snapshot has another or none.
OtherDescriptions ==
  { createTextNodeDescription("y"),
    [nodeType |-> ELEMENT_NODE, nodeName |-> "B"] }

\* The snapshot list, its prefixes, the list with one more description, with
\* one description exchanged, and with one description less one of its keys.
ListVariants(descriptions) ==
  {SubSeq(descriptions, 1, k) : k \in 0..Len(descriptions)}
    \cup {descriptions \o <<d>> : d \in OtherDescriptions}
    \cup {[descriptions EXCEPT ![i] = d] :
            i \in 1..Len(descriptions), d \in OtherDescriptions}
    \cup UNION {{[descriptions EXCEPT ![i] = Without(@, key)] :
                   key \in DOMAIN descriptions[i] \ {"nodeType"}} :
                 i \in 1..Len(descriptions)}

DescribedAttributeMaps ==
  { <<>>, [a |-> "1"], [a |-> "1", b |-> "2"], [a |-> "2", b |-> "2"],
    [a |-> "1", b |-> "2", c |-> "1"], [href |-> "x"] }

\* The snapshot, and the snapshot with one key taken away or set otherwise.
DescriptionVariants(description) ==
  {description}
    \cup {Without(description, key) : key \in DOMAIN description \ {"nodeType"}}
    \cup {Put(description, "nodeType", nodeType) :
            nodeType \in {ELEMENT_NODE, TEXT_NODE, COMMENT_NODE}}
    \cup {Put(description, "nodeName", nodeName) : nodeName \in {"A", TEXT_NODE_NAME}}
    \cup {Put(description, "nodeValue", nodeValue) : nodeValue \in {"x", "y", NULL}}
    \cup {Put(description, "attributes", attributes) :
            attributes \in DescribedAttributeMaps}
    \cup {Put(description, "childNodes", childNodes) :
            childNodes \in ListVariants(describeNodeList(node.childNodes))}

\* The live attributes keyed by their qualified names.
QualifiedAttributeMap(attributes) ==
  [name \in {attributes[i].name : i \in 1..Len(attributes)} |->
     attributes[IndexOfName(attributes, name)].value]

\* The nodes of SpecCodec, and the elements of LiveChildPool on their own.
MatchNodes == CodecNodes \cup {WithIds(n, <<0>>) : n \in LiveChildPool}

InitMatch ==
  /\ op = "init"
  /\ node \in MatchNodes
  /\ before = node
  /\ input = NOTHING
  /\ output = NOTHING

\* nodeMatchesDescription(node, description)
MatchNode(description) ==
  /\ op = "init"
  /\ op' = "nodeMatchesDescription"
  /\ input' = description
  /\ output' = nodeMatchesDescription(node, description)
  /\ UNCHANGED <<node, before>>

\* attributesMatchDescription(node.attributes, description)
MatchAttributes(description) ==
  /\ op = "init"
  /\ op' = "attributesMatchDescription"
  /\ input' = description
  /\ output' = attributesMatchDescription(node.attributes, description)
  /\ UNCHANGED <<node, before>>

\* nodeListMatchesDescription(node.childNodes, descriptions)
MatchNodeList(descriptions) ==
  /\ op = "init"
  /\ op' = "nodeListMatchesDescription"
  /\ input' = descriptions
  /\ output' = nodeListMatchesDescription(node.childNodes, descriptions)
  /\ UNCHANGED <<node, before>>

NextMatch ==
  \/ \E description \in DescriptionVariants(describeNode(node)) : MatchNode(description)
  \/ /\ IsElement(node)
     /\ \E description \in DescribedAttributeMaps
                             \cup {QualifiedAttributeMap(node.attributes)} :
          MatchAttributes(description)
  \/ \E descriptions \in ListVariants(describeNodeList(node.childNodes)) :
       MatchNodeList(descriptions)

SpecMatch == InitMatch /\ [][NextMatch]_vars

\* The live attributes are the pairs of the map, no more and no fewer.
AttributesEqual(attributes, description) ==
  /\ {<<attributes[i].name, attributes[i].value>> : i \in 1..Len(attributes)}
       = {<<key, description[key]>> : key \in DOMAIN description}
  /\ Len(attributes) = Cardinality(DOMAIN description)

RECURSIVE Matches(_, _)
\* The lists have the same length and match index by index.
AllMatch(nodes, descriptions) ==
  /\ Len(nodes) = Len(descriptions)
  /\ \A i \in 1..Len(nodes) : Matches(nodes[i], descriptions[i])

\* The conditions C11 lists.
Matches(n, d) ==
  /\ n.nodeType = d.nodeType
  /\ Has(d, "nodeName") => d.nodeName = n.nodeName
  /\ (Has(d, "nodeValue") /\ d.nodeValue # NULL) => d.nodeValue = n.nodeValue
  /\ IF n.nodeType = ELEMENT_NODE
     THEN AttributesEqual(n.attributes,
                          IF Has(d, "attributes") THEN d.attributes ELSE <<>>)
     ELSE ~Has(d, "attributes")
  /\ AllMatch(n.childNodes, IF Has(d, "childNodes") THEN d.childNodes ELSE <<>>)

\* C11: nodeMatchesDescription(node, d) is true exactly when the kinds are equal,
\* d's name is absent or the live name, d's value is absent, null or the live
\* value, an element's attributes equal d.attributes (or {}) and a non-element's
\* d has no attributes, and the children match d.childNodes (or []).
C11_NodeMatchesExactlyWhen ==
  op = "nodeMatchesDescription" => output = Matches(node, input)

\* C11's case: an element with attributes and a child matched without a name,
\* true, and a text matched against a null value, true.
C11_Witness ==
  /\ op = "nodeMatchesDescription"
  /\ output = TRUE
  /\ \/ /\ IsElement(node)
        /\ Len(node.attributes) >= 2
        /\ Len(node.childNodes) >= 1
        /\ ~Has(input, "nodeName")
     \/ /\ node.nodeType = TEXT_NODE
        /\ Has(input, "nodeValue")
        /\ input.nodeValue = NULL

\* C12: attributesMatchDescription(live, required) is true iff every key of
\* required is in live with an equal value and live has no other attribute.
C12_AttributesMatchStrictly ==
  op = "attributesMatchDescription" =>
    output = AttributesEqual(node.attributes, input)

\* C12's case: an attribute more in live than in required, false.
C12_Witness ==
  /\ op = "attributesMatchDescription"
  /\ Len(node.attributes) = 2
  /\ Cardinality(DOMAIN input) = 1
  /\ \A key \in DOMAIN input : getAttribute(node, key) = input[key]
  /\ output = FALSE

\* C13: nodeListMatchesDescription(live, ds) is true iff live and ds have the
\* same length and the live node at every index i matches ds[i].
C13_NodeListMatchesExactlyWhen ==
  op = "nodeListMatchesDescription" =>
    output = (/\ Len(node.childNodes) = Len(input)
              /\ \A i \in 1..Len(input) : Matches(node.childNodes[i], input[i]))

\* C13's case: every described index matches and the live list is longer, false.
C13_Witness ==
  /\ op = "nodeListMatchesDescription"
  /\ Len(input) >= 1
  /\ Len(node.childNodes) > Len(input)
  /\ \A i \in 1..Len(input) : Matches(node.childNodes[i], input[i])
  /\ output = FALSE

(***************************************************************************)
(* SpecEquivalence: checkEquivalence on two JSON-like values.              *)
(* A value is a record with one key that tells its type: [number |-> n],   *)
(* [string |-> s], [null |-> TRUE], [array |-> sequence of values],        *)
(* [object |-> function from keys to values]; [undefined |-> TRUE] is what *)
(* reading a missing property gives.  input is the pair of arguments and   *)
(* output the boolean returned.                                            *)
(***************************************************************************)
UNDEFINED == [undefined |-> TRUE]

\* typeof value === 'object' && value != null
IsObject(value) == Has(value, "array") \/ Has(value, "object")

\* Array.isArray(value)
IsArray(value) == Has(value, "array")

\* The property keys of the items of an array, in order.
ArrayKeys == <<"0", "1", "2">>

\* The keys for..in visits on an array or an object.
KeysIn(value) ==
  IF IsArray(value) THEN {ArrayKeys[i] : i \in 1..Len(value.array)}
  ELSE DOMAIN value.object

\* value[key] on an array or an object
Get(value, key) ==
  IF IsArray(value)
  THEN IF \E i \in 1..Len(value.array) : ArrayKeys[i] = key
       THEN value.array[CHOOSE i \in 1..Len(value.array) : ArrayKeys[i] = key]
       ELSE IF key = "length" THEN [number |-> Len(value.array)]
       ELSE UNDEFINED
  ELSE IF key \in DOMAIN value.object THEN value.object[key] ELSE UNDEFINED

\* first === second, first being a primitive
StrictEquals(first, second) == DOMAIN first = DOMAIN second /\ first = second

RECURSIVE checkEquivalence(_, _)
checkEquivalence(first, second) ==
  IF IsObject(first)
  THEN IF IsObject(second)
       THEN IF IsArray(first)
            THEN IF IsArray(second)
                 THEN IF \A i \in 1..Len(first.array) :
                           checkEquivalence(first.array[i],
                             IF i <= Len(second.array) THEN second.array[i]
                             ELSE UNDEFINED)
                      THEN Len(first.array) = Len(second.array)
                      ELSE FALSE
                 ELSE FALSE
            ELSE IF \E key \in DOMAIN first.object :
                      ~checkEquivalence(first.object[key], Get(second, key))
                 THEN FALSE
                 ELSE IF \E key \in KeysIn(second) : key \notin DOMAIN first.object
                 THEN FALSE
                 ELSE TRUE
       ELSE FALSE
  ELSE StrictEquals(first, second)

JSONValues ==
  { [null |-> TRUE], [number |-> 1], [number |-> 2], [string |-> "a"], [string |-> "1"],
    [array |-> <<>>],
    [array |-> <<[number |-> 1]>>],
    [array |-> <<[number |-> 1], [number |-> 2]>>],
    [array |-> <<[number |-> 1], [number |-> 3]>>],
    [array |-> <<[array |-> <<[number |-> 1]>>]>>],
    [object |-> <<>>],
    [object |-> [x |-> [number |-> 1]]],
    [object |-> [x |-> [number |-> 1], y |-> [number |-> 1]]],
    [object |-> [x |-> [number |-> 1], y |-> [number |-> 2]]],
    [object |-> [x |-> [object |-> [y |-> [number |-> 1]]]]],
    [object |-> [x |-> [array |-> <<[number |-> 1]>>]]],
    [object |-> [x |-> [object |-> <<>>]]],
    [object |-> ("0" :> [number |-> 1])] }

InitEquivalence ==
  /\ op = "init"
  /\ input \in JSONValues \X JSONValues
  /\ output = NOTHING
  /\ node = NOTHING
  /\ before = NOTHING

\* checkEquivalence(first, second)
CheckEquivalence ==
  /\ op = "init"
  /\ op' = "checkEquivalence"
  /\ output' = checkEquivalence(input[1], input[2])
  /\ UNCHANGED <<node, before, input>>

\* checkEquivalence(second, first), the arguments of the call before exchanged
CheckEquivalenceExchanged ==
  /\ op = "checkEquivalence"
  /\ op' = "checkEquivalence exchanged"
  /\ before' = [result |-> output]
  /\ output' = checkEquivalence(input[2], input[1])
  /\ UNCHANGED <<node, input>>

NextEquivalence ==
  \/ CheckEquivalence
  \/ CheckEquivalenceExchanged

SpecEquivalence == InitEquivalence /\ [][NextEquivalence]_vars

\* Deep structural equality as C14 words it.
RECURSIVE Equivalent(_, _)
Equivalent(a, b) ==
  CASE Has(a, "array") /\ Has(b, "array") ->
         /\ Len(a.array) = Len(b.array)
         /\ \A i \in 1..Len(a.array) : Equivalent(a.array[i], b.array[i])
    [] Has(a, "object") /\ Has(b, "object") ->
         /\ DOMAIN a.object = DOMAIN b.object
         /\ \A key \in DOMAIN a.object : Equivalent(a.object[key], b.object[key])
    [] Has(a, "number") /\ Has(b, "number") -> a.number = b.number
    [] Has(a, "string") /\ Has(b, "string") -> a.string = b.string
    [] Has(a, "null") /\ Has(b, "null") -> TRUE
    [] OTHER -> FALSE

\* C14: checkEquivalence(a, b) is deep structural equality: arrays by length and
\* elements, an array never equivalent to a non-array object, objects by key set
\* and values, primitives by identity.
C14_DeepStructuralEquality ==
  op = "checkEquivalence" => output = Equivalent(input[1], input[2])

(***************************************************************************)
(* SpecMaterialize: createDescribedNode on a description of any kind, with *)
(* and without name and value, with attributes and child descriptions of   *)
(* every sort.  input is the description and output the node returned,     *)
(* NOTHING for undefined, RAISED when the host threw.                      *)
(***************************************************************************)
NodeTypes ==
  {ELEMENT_NODE, ATTRIBUTE_NODE, TEXT_NODE, CDATA_SECTION_NODE,
   PROCESSING_INSTRUCTION_NODE, COMMENT_NODE, DOCUMENT_NODE, DOCUMENT_TYPE_NODE,
   DOCUMENT_FRAGMENT_NODE}

\* Every kind, without name, named A and with the empty name; without value,
\* with null and with x.
PlainDescriptions ==
  UNION { UNION { { LET typed == [nodeType |-> nodeType]
                        named == IF name = "absent" THEN typed
                                 ELSE Put(typed, "nodeName",
                                          IF name = "empty" THEN "" ELSE name)
                    IN IF nodeValue = "absent" THEN named
                       ELSE Put(named, "nodeValue", nodeValue) :
                    nodeValue \in {"absent", NULL, "x"} } :
                  name \in {"absent", "A", "empty"} } :
          nodeType \in NodeTypes }

\* Child descriptions: a text, an element with an attribute and a child, an
\* element without name, an attribute, a fragment with a child.
MaterializeChildPool ==
  { createTextNodeDescription("x"),
    createElementDescription("B", [a |-> "1"], <<createTextNodeDescription("y")>>),
    [nodeType |-> ELEMENT_NODE],
    createAttributeDescription("a", "1"),
    createFragmentDescription(<<createTextNodeDescription("z")>>) }

MaterializeChildLists == SeqsUpTo(MaterializeChildPool, MaxDescs)

MaterializeAttributeMaps ==
  { <<>>, [a |-> "1", b |-> "2"], [k \in {""} |-> "1"] }

ParentDescriptions ==
  { Put(d, "childNodes", childNodes) :
      d \in { [nodeType |-> ELEMENT_NODE, nodeName |-> "A"],
              [nodeType |-> DOCUMENT_FRAGMENT_NODE,
               nodeName |-> DOCUMENT_FRAGMENT_NODE_NAME] }
            \cup { [nodeType |-> ELEMENT_NODE, nodeName |-> "A",
                    attributes |-> attributes] :
                     attributes \in MaterializeAttributeMaps },
      childNodes \in MaterializeChildLists }
  \cup { [nodeType |-> ELEMENT_NODE, nodeName |-> "A", attributes |-> attributes] :
           attributes \in MaterializeAttributeMaps }

MaterializeDescriptions == PlainDescriptions \cup ParentDescriptions

InitMaterialize ==
  /\ op = "init"
  /\ input \in MaterializeDescriptions
  /\ output = NOTHING
  /\ node = NOTHING
  /\ before = NOTHING

\* createDescribedNode(description)
MaterializeDescription ==
  /\ op = "init"
  /\ op' = "createDescribedNode"
  /\ output' = createDescribedNode(input, <<1>>)
  /\ UNCHANGED <<node, before, input>>

NextMaterialize == MaterializeDescription

SpecMaterialize == InitMaterialize /\ [][NextMaterialize]_vars

\* The description asks for no node: a kind that needs a name has none, or
\* the kind is one the function does not create.
AsksForNoNode(description) ==
  \/ /\ description.nodeType \in
          {ELEMENT_NODE, ATTRIBUTE_NODE, PROCESSING_INSTRUCTION_NODE}
     /\ "nodeName" \notin DOMAIN description
  \/ description.nodeType \in {DOCUMENT_NODE, DOCUMENT_TYPE_NODE}

\* The value the description gives, the empty string when it gives none.
DescribedValue(description) ==
  IF "nodeValue" \in DOMAIN description /\ description.nodeValue # NULL
  THEN description.nodeValue ELSE ""

\* output is what the claim expects of createDescribedNode(input): no throw,
\* nothing exactly for the descriptions that ask for no node, otherwise a node
\* of the description's kind carrying the described value.
MaterializedAsDescribed ==
  /\ ~(DOMAIN output = {"raised"})
  /\ (DOMAIN output = {"nothing"}) <=> AsksForNoNode(input)
  /\ ~(DOMAIN output = {"nothing"}) =>
       /\ output.nodeType = input.nodeType
       /\ input.nodeType \in {ATTRIBUTE_NODE, TEXT_NODE, CDATA_SECTION_NODE,
                              COMMENT_NODE, PROCESSING_INSTRUCTION_NODE}
            => output.nodeValue = DescribedValue(input)

RECURSIVE HostAccepts(_)
\* The host document carries out everything the description asks of it:
\* every name it is given is a name, and every child it is given can be a child.
HostAccepts(description) ==
  CASE description.nodeType = ELEMENT_NODE /\ "nodeName" \in DOMAIN description ->
         /\ description.nodeName # ""
         /\ "attributes" \in DOMAIN description
              => "" \notin DOMAIN description.attributes
         /\ "childNodes" \in DOMAIN description =>
              \A i \in 1..Len(description.childNodes) :
                LET child == description.childNodes[i]
                IN /\ HostAccepts(child)
                   /\ ~(child.nodeType = ATTRIBUTE_NODE
                        /\ "nodeName" \in DOMAIN child)
    [] description.nodeType \in {ATTRIBUTE_NODE, PROCESSING_INSTRUCTION_NODE}
       /\ "nodeName" \in DOMAIN description ->
         description.nodeName # ""
    [] OTHER -> TRUE

RECURSIVE MadeAs(_, _)
\* The nodes are, one for one and in order, made as the descriptions that ask
\* for a node say.
AllMadeAs(nodes, descriptions) ==
  LET asking == SelectSeq(descriptions, LAMBDA d : ~AsksForNoNode(d))
  IN /\ Len(nodes) = Len(asking)
     /\ \A i \in 1..Len(nodes) : MadeAs(nodes[i], asking[i])

\* n is the node the description asks for: its kind, its name where the kind
\* has one of its own, its value, and for an element its attributes and, from
\* its child descriptions, its children.
MadeAs(n, d) ==
  /\ n.nodeType = d.nodeType
  /\ d.nodeType \in {ELEMENT_NODE, ATTRIBUTE_NODE, PROCESSING_INSTRUCTION_NODE}
       => n.nodeName = d.nodeName
  /\ d.nodeType \in {ATTRIBUTE_NODE, TEXT_NODE, CDATA_SECTION_NODE, COMMENT_NODE,
                     PROCESSING_INSTRUCTION_NODE}
       => n.nodeValue = DescribedValue(d)
  /\ d.nodeType = ELEMENT_NODE =>
       /\ AttributesEqual(n.attributes,
                          IF "attributes" \in DOMAIN d THEN d.attributes ELSE <<>>)
       /\ AllMadeAs(n.childNodes,
                    IF "childNodes" \in DOMAIN d THEN d.childNodes ELSE <<>>)

RECURSIVE NoFragmentChild(_)
\* No child description of the element description, at any depth, is of the
\* DocumentFragment kind.
NoFragmentChild(description) ==
  (description.nodeType = ELEMENT_NODE /\ "childNodes" \in DOMAIN description) =>
    \A i \in 1..Len(description.childNodes) :
      /\ description.childNodes[i].nodeType # DOCUMENT_FRAGMENT_NODE
      /\ NoFragmentChild(description.childNodes[i])

\* input is an Element description with a name that the host document accepts,
\* and createDescribedNode has returned.
ElementMaterialized ==
  /\ op = "createDescribedNode"
  /\ input.nodeType = ELEMENT_NODE
  /\ "nodeName" \in DOMAIN input
  /\ HostAccepts(input)

DescribedChildren(description) ==
  IF "childNodes" \in DOMAIN description THEN description.childNodes ELSE <<>>

\* C17: for a DocumentFragment description createDescribedNode returns a
\* fragment with zero children whatever the description's children are, while
\* an Element description gets a child for each of its child descriptions that
\* yields one.
C17_FragmentMaterializesEmpty ==
  op = "createDescribedNode" =>
    /\ input.nodeType = DOCUMENT_FRAGMENT_NODE =>
         /\ ~(DOMAIN output \in {{"nothing"}, {"raised"}})
         /\ output.nodeType = DOCUMENT_FRAGMENT_NODE
         /\ output.childNodes = <<>>
    /\ ElementMaterialized =>
         Len(output.childNodes) =
           Cardinality({i \in 1..Len(DescribedChildren(input)) :
                          /\ ~AsksForNoNode(input.childNodes[i])
                          /\ input.childNodes[i].nodeType # DOCUMENT_FRAGMENT_NODE})

\* A fragment described with two children, both of which would yield a node,
\* has been created without children.
C17_Witness ==
  /\ op = "createDescribedNode"
  /\ input.nodeType = DOCUMENT_FRAGMENT_NODE
  /\ Len(DescribedChildren(input)) = 2
  /\ \A i \in 1..2 : /\ input.childNodes[i].nodeType \in {TEXT_NODE, ELEMENT_NODE}
                      /\ ~AsksForNoNode(input.childNodes[i])
  /\ output.nodeType = DOCUMENT_FRAGMENT_NODE
  /\ output.childNodes = <<>>

(***************************************************************************)
(* The shape of a snapshot, under SpecCodec                                *)
(***************************************************************************)
RECURSIVE ShapedAs(_, _)
\* d has the keys the live node n calls for: childNodes exactly when n has a
\* child, and then one description per child in live order; attributes exactly
\* when n is an element, empty when the element has no attribute; nodeValue
\* exactly when the live value is not null, and then that value.
ShapedAs(d, n) ==
  /\ d.nodeType = n.nodeType
  /\ ("childNodes" \in DOMAIN d) <=> (Len(n.childNodes) > 0)
  /\ "childNodes" \in DOMAIN d =>
       /\ Len(d.childNodes) = Len(n.childNodes)
       /\ \A i \in 1..Len(n.childNodes) : ShapedAs(d.childNodes[i], n.childNodes[i])
  /\ ("attributes" \in DOMAIN d) <=> (n.nodeType = ELEMENT_NODE)
  /\ (n.nodeType = ELEMENT_NODE /\ Len(n.attributes) = 0) =>
       DOMAIN d.attributes = {}
  /\ ("nodeValue" \in DOMAIN d) <=> (n.nodeValue # NULL)
  /\ "nodeValue" \in DOMAIN d => d.nodeValue = n.nodeValue

\* C18: describeNode(n) has a childNodes key exactly when n has at least one
\* child, never an empty list, and then lists the children's descriptions in
\* live order; an attributes key exactly when n is an element, {} when the
\* element has no attribute; a nodeValue key exactly when the live value is not
\* null.
C18_SnapshotShape ==
  op = "describeNode" => ShapedAs(output, input)

\* An element without attributes whose children are a childless node and an
\* element with a child has been described: an empty attributes map, two child
\* descriptions, the first without a childNodes key, the second with one.
C18_Witness ==
  /\ op = "describeNode"
  /\ input.nodeType = ELEMENT_NODE
  /\ Len(input.attributes) = 0
  /\ Len(input.childNodes) = 2
  /\ Len(input.childNodes[1].childNodes) = 0
  /\ Len(input.childNodes[2].childNodes) > 0
  /\ DOMAIN output.attributes = {}
  /\ Len(output.childNodes) = 2
  /\ "childNodes" \notin DOMAIN output.childNodes[1]
  /\ "childNodes" \in DOMAIN output.childNodes[2]

(***************************************************************************)
(* SpecVariant: shorthandToDOMDescription and validateDOMShorthand on a    *)
(* value: a string, an object with any of the keys the variants are told   *)
(* apart by, with or without a key no variant has, or a value that is      *)
(* neither.  input is the value and output what the function returned.     *)
(***************************************************************************)
\* The keys an object is given, each with the one value it takes here.
VariantKeyValues ==
  [tag |-> "T", name |-> "n", value |-> "v", cData |-> "c", target |-> "t",
   data |-> "d", comment |-> "m",
   content |-> <<[string |-> "x"], [tag |-> "B", name |-> "n", value |-> "v"]>>,
   other |-> "o"]

ShorthandObjects ==
  { [key \in keys |-> VariantKeyValues[key]] : keys \in SUBSET DOMAIN VariantKeyValues }

ShorthandStrings == { [string |-> ""], [string |-> "x"] }

\* Values that are neither strings nor plain objects.
OtherValues ==
  { [number |-> 1], [boolean |-> TRUE], [undefined |-> TRUE], [null |-> TRUE],
    [array |-> <<>>], [array |-> <<"content">>] }

InitVariant ==
  /\ op = "init"
  /\ input \in ShorthandObjects \cup ShorthandStrings \cup OtherValues
  /\ output = NOTHING
  /\ node = NOTHING
  /\ before = NOTHING

\* shorthandToDOMDescription(shorthand): the parameter is a string or an object
ShorthandToDOMDescription ==
  /\ op = "init"
  /\ input \in ShorthandObjects \cup ShorthandStrings
  /\ op' = "shorthandToDOMDescription"
  /\ output' = shorthandToDOMDescription(input)
  /\ UNCHANGED <<node, before, input>>

\* validateDOMShorthand(target)
ValidateDOMShorthand ==
  /\ op = "init"
  /\ op' = "validateDOMShorthand"
  /\ output' = validateDOMShorthand(input)
  /\ UNCHANGED <<node, before, input>>

NextVariant ==
  \/ ShorthandToDOMDescription
  \/ ValidateDOMShorthand

SpecVariant == InitVariant /\ [][NextVariant]_vars

\* The first variant, in the order Element, Attribute, CDataSection,
\* ProcessingInstruction, Comment, whose keys the object has; DocumentFragment
\* when it has the keys of none.
VariantOf(shorthand) ==
  CASE "tag" \in DOMAIN shorthand -> ELEMENT_NODE
    [] {"name", "value"} \subseteq DOMAIN shorthand -> ATTRIBUTE_NODE
    [] "cData" \in DOMAIN shorthand -> CDATA_SECTION_NODE
    [] {"target", "data"} \subseteq DOMAIN shorthand -> PROCESSING_INSTRUCTION_NODE
    [] "comment" \in DOMAIN shorthand -> COMMENT_NODE
    [] OTHER -> DOCUMENT_FRAGMENT_NODE

\* C19: shorthandToDOMDescription tells the variants apart by key presence in
\* the order Element (tag), Attribute (name and value), CDataSection (cData),
\* ProcessingInstruction (target and data), Comment (comment), DocumentFragment
\* otherwise: a string always yields a Text description, an object with tag
\* and name and value yields an Element description, and an object with name
\* but no value is not an Attribute.
C19_VariantOrder ==
  op = "shorthandToDOMDescription" =>
    IF "string" \in DOMAIN input
    THEN /\ output.nodeType = TEXT_NODE
         /\ output.nodeValue = input.string
    ELSE /\ output.nodeType = VariantOf(input)
         /\ output.nodeType = ELEMENT_NODE => output.nodeName = input.tag
         /\ output.nodeType = ATTRIBUTE_NODE =>
              /\ output.nodeName = input.name
              /\ output.nodeValue = input.value
         /\ output.nodeType = CDATA_SECTION_NODE => output.nodeValue = input.cData
         /\ output.nodeType = PROCESSING_INSTRUCTION_NODE =>
              /\ output.nodeName = input.target
              /\ output.nodeValue = input.data
         /\ output.nodeType = COMMENT_NODE => output.nodeValue = input.comment
         /\ {"tag", "name", "value"} \subseteq DOMAIN input
              => output.nodeType = ELEMENT_NODE
         /\ ("name" \in DOMAIN input /\ "value" \notin DOMAIN input)
              => output.nodeType # ATTRIBUTE_NODE

\* An object with tag, name, value and comment has been converted to an
\* Element description named by its tag.
C19_Witness ==
  /\ op = "shorthandToDOMDescription"
  /\ DOMAIN input = {"tag", "name", "value", "comment"}
  /\ output.nodeType = ELEMENT_NODE
  /\ output.nodeName = "T"

\* The value qualifies as a shorthand: a string, or an object, not null, that
\* has tag, or name and value, or cData, or target and data, or comment, or no
\* key at all, or the one key content.
Qualifies(v) ==
  \/ "string" \in DOMAIN v
  \/ /\ DOMAIN v \cap {"number", "boolean", "undefined", "null"} = {}
     /\ LET keys == IF "array" \in DOMAIN v
                    THEN {<<"0", "1", "2">>[i] : i \in 1..Len(v.array)}
                    ELSE DOMAIN v
        IN \/ "tag" \in keys
           \/ {"name", "value"} \subseteq keys
           \/ "cData" \in keys
           \/ {"target", "data"} \subseteq keys
           \/ "comment" \in keys
           \/ keys = {}
           \/ keys = {"content"}

\* C20: validateDOMShorthand(v) returns v itself when v qualifies as a
\* shorthand and nothing for every other value: a number, null, an object with
\* none but unrecognized keys, content together with an unrecognized key.
C20_ValidateReturnsValueOrNothing ==
  op = "validateDOMShorthand" =>
    IF Qualifies(input) THEN output = input ELSE DOMAIN output = {"nothing"}

\* An object with content and an unrecognized key has been refused.
C20_Witness ==
  /\ op = "validateDOMShorthand"
  /\ DOMAIN input = {"content", "other"}
  /\ DOMAIN output = {"nothing"}

(***************************************************************************)
(* Further claims about the shorthand codec, under SpecShorthand           *)
(***************************************************************************)
\* d is an Element description whose attributes map is there and empty.
HasEmptyAttributes(d) ==
  /\ d.nodeType = ELEMENT_NODE
  /\ "attributes" \in DOMAIN d
  /\ DOMAIN d.attributes = {}

\* C21: an Element description whose attributes map is empty converts to a
\* shorthand with no attributes key, and converting that shorthand back yields
\* a description in which attributes is absent, not an empty map.
C21_EmptyAttributesOmitted ==
  /\ (op = "DOMDescriptionToShorthand" /\ HasEmptyAttributes(input)) =>
       /\ "tag" \in DOMAIN output
       /\ "attributes" \notin DOMAIN output
  /\ (op = "shorthandToDOMDescription" /\ HasEmptyAttributes(before)) =>
       /\ "attributes" \notin DOMAIN input
       /\ output.nodeType = ELEMENT_NODE
       /\ "attributes" \notin DOMAIN output

\* An element description with an empty attributes map and children has been
\* converted there and back, and has come back without attributes, with its
\* children.
C21_Witness ==
  /\ op = "shorthandToDOMDescription"
  /\ HasEmptyAttributes(before)
  /\ "childNodes" \in DOMAIN before
  /\ Len(before.childNodes) > 0
  /\ "attributes" \notin DOMAIN input
  /\ "attributes" \notin DOMAIN output
  /\ output.childNodes = before.childNodes

(***************************************************************************)
(* SpecHTML: shorthandToHTML on a string, on an object with any of the     *)
(* keys the variants are told apart by, and on element shorthands with and *)
(* without attributes and content; then shorthandToDOMDescription on the   *)
(* same shorthand.  input is the shorthand, output what the last call      *)
(* returned, before the text once the description has been taken.          *)
(***************************************************************************)
HTMLChildPool ==
  { [string |-> "x"], [tag |-> "br"], [tag |-> "i", content |-> <<[string |-> "y"]>>],
    [comment |-> "m"] }

HTMLContents == SeqsUpTo(HTMLChildPool, MaxDescs)

ElementShorthands ==
  { [tag |-> tag] : tag \in {"br", "p"} }
  \cup { [tag |-> tag, attributes |-> attributes] :
           tag \in {"br", "p"}, attributes \in {<<>>, [a |-> "1", b |-> "2"]} }
  \cup { [tag |-> tag, content |-> content] :
           tag \in {"br", "p"}, content \in HTMLContents }
  \cup { [tag |-> tag, attributes |-> attributes, content |-> content] :
           tag \in {"br", "p"}, attributes \in {<<>>, [a |-> "1", b |-> "2"]},
           content \in HTMLContents }

HTMLShorthands ==
  ShorthandObjects \cup ShorthandStrings \cup ElementShorthands
    \cup { [name |-> "n", value |-> NULL], [content |-> <<>>] }

InitHTML ==
  /\ op = "init"
  /\ input \in HTMLShorthands
  /\ output = NOTHING
  /\ node = NOTHING
  /\ before = NOTHING

\* shorthandToHTML(shorthand)
ShorthandToHTML ==
  /\ op = "init"
  /\ op' = "shorthandToHTML"
  /\ output' = shorthandToHTML(input)
  /\ UNCHANGED <<node, before, input>>

\* shorthandToDOMDescription(shorthand), shorthand being the one just rendered
DescribeRendered ==
  /\ op = "shorthandToHTML"
  /\ op' = "shorthandToDOMDescription"
  /\ before' = output
  /\ output' = shorthandToDOMDescription(input)
  /\ UNCHANGED <<node, input>>

NextHTML ==
  \/ ShorthandToHTML
  \/ DescribeRendered

SpecHTML == InitHTML /\ [][NextHTML]_vars

RECURSIVE RenderedInOrder(_, _)
\* The texts of the shorthands of content from index i on, one after another.
RenderedInOrder(content, i) ==
  IF i > Len(content) THEN <<>>
  ELSE shorthandToHTML(content[i]) \o RenderedInOrder(content, i + 1)

\* The number of pieces of the open tag of an element shorthand: '<', the tag
\* and five for each attribute.
OpenTagLength(shorthand) ==
  2 + 5 * (IF "attributes" \in DOMAIN shorthand
           THEN Cardinality(DOMAIN shorthand.attributes) ELSE 0)

\* C22: shorthandToHTML of an Element shorthand decides the closing form by the
\* presence of the content key, not by its length: with a content key, even an
\* empty one, it emits the open tag, '>', the rendered children in order and a
\* full closing tag; without one it emits the self-closing '/>' and no closing
\* tag.
C22_ClosingFormByContentKey ==
  (op = "shorthandToHTML" /\ "tag" \in DOMAIN input) =>
    LET open == OpenTagLength(input)
    IN /\ Len(output) > open
       /\ SubSeq(output, 1, 2) = <<"<", input.tag>>
       /\ IF "content" \in DOMAIN input
          THEN /\ output[open + 1] = ">"
               /\ Len(output) >= open + 4
               /\ SubSeq(output, open + 2, Len(output) - 3)
                    = RenderedInOrder(input.content, 1)
               /\ SubSeq(output, Len(output) - 2, Len(output))
                    = <<"</", input.tag, ">">>
          ELSE /\ Len(output) = open + 1
               /\ output[open + 1] = "/>"
               /\ \A i \in 1..Len(output) : output[i] # "</"

\* An element shorthand with two attributes and an empty content has been
\* rendered with its open tag, '>' and a full closing tag.
C22_Witness ==
  /\ op = "shorthandToHTML"
  /\ DOMAIN input = {"tag", "attributes", "content"}
  /\ input.tag = "p"
  /\ Cardinality(DOMAIN input.attributes) = 2
  /\ input.content = <<>>
  /\ Len(output) = 16
  /\ SubSeq(output, 13, 16) = <<">", "</", "p", ">">>

(***************************************************************************)
(* SpecKinds: the three makers of descriptions, each on its own inputs:    *)
(* describeNode on a live node, shorthandToDOMDescription on a shorthand,  *)
(* a create*Description factory on its arguments.  input is a record with  *)
(* the maker's arguments, output the description returned.                 *)
(***************************************************************************)
\* The child descriptions handed to a factory; the last is a Text description
\* without its name, which the type of a description allows.
FactoryChildPool ==
  { createTextNodeDescription("x"),
    createElementDescription("B", [a |-> "1"], <<createTextNodeDescription("y")>>),
    createFragmentDescription(NO_LIST),
    [nodeType |-> TEXT_NODE, nodeValue |-> "x"] }

FactoryChildLists == {NO_LIST} \cup SeqsUpTo(FactoryChildPool, MaxDescs)

FactoryCalls ==
  { [factory |-> "createElementDescription", tag |-> "A",
     attributes |-> attributes, childNodes |-> childNodes] :
      attributes \in {NOTHING, <<>>, [a |-> "1"]}, childNodes \in FactoryChildLists }
  \cup { [factory |-> "createFragmentDescription", childNodes |-> childNodes] :
           childNodes \in FactoryChildLists }
  \cup { [factory |-> "createAttributeDescription", name |-> "a", value |-> value] :
           value \in {"1", NULL} }
  \cup { [factory |-> factory, text |-> text] :
           factory \in {"createTextNodeDescription", "createCommentDescription",
                        "createCDataDescription"},
           text \in {"", "x"} }
  \cup { [factory |-> "createProcessingInstructionDescription",
          target |-> "xml", data |-> "x"] }

InitKinds ==
  /\ op = "init"
  /\ input \in { [live |-> n] : n \in CodecNodes }
                 \cup { [shorthand |-> shorthand] : shorthand \in HTMLShorthands }
                 \cup FactoryCalls
  /\ output = NOTHING
  /\ node = NOTHING
  /\ before = NOTHING

\* describeNode(node)
DescribeLive ==
  /\ op = "init"
  /\ Has(input, "live")
  /\ op' = "describeNode"
  /\ output' = describeNode(input.live)
  /\ UNCHANGED <<node, before, input>>

\* shorthandToDOMDescription(shorthand)
ExpandShorthand ==
  /\ op = "init"
  /\ Has(input, "shorthand")
  /\ op' = "shorthandToDOMDescription"
  /\ output' = shorthandToDOMDescription(input.shorthand)
  /\ UNCHANGED <<node, before, input>>

\* One of the create*Description factories, on its arguments
CreateDescription ==
  /\ op = "init"
  /\ Has(input, "factory")
  /\ op' = "createDescription"
  /\ output' =
       CASE input.factory = "createElementDescription" ->
              createElementDescription(input.tag, input.attributes, input.childNodes)
         [] input.factory = "createFragmentDescription" ->
              createFragmentDescription(input.childNodes)
         [] input.factory = "createAttributeDescription" ->
              createAttributeDescription(input.name, input.value)
         [] input.factory = "createTextNodeDescription" ->
              createTextNodeDescription(input.text)
         [] input.factory = "createCommentDescription" ->
              createCommentDescription(input.text)
         [] input.factory = "createCDataDescription" ->
              createCDataDescription(input.text)
         [] input.factory = "createProcessingInstructionDescription" ->
              createProcessingInstructionDescription(input.target, input.data)
  /\ UNCHANGED <<node, before, input>>

NextKinds ==
  \/ DescribeLive
  \/ ExpandShorthand
  \/ CreateDescription

SpecKinds == InitKinds /\ [][NextKinds]_vars

RECURSIVE KindConsistent(_)
\* d and every description nested in its children carries attributes only if
\* its kind is Element, and the reserved name of its kind when the kind is
\* Text, CDataSection, Comment or DocumentFragment.
KindConsistent(d) ==
  /\ "attributes" \in DOMAIN d => d.nodeType = ELEMENT_NODE
  /\ d.nodeType \in {TEXT_NODE, CDATA_SECTION_NODE, COMMENT_NODE,
                     DOCUMENT_FRAGMENT_NODE} =>
       /\ "nodeName" \in DOMAIN d
       /\ d.nodeName = FixedName(d.nodeType)
  /\ "childNodes" \in DOMAIN d =>
       \A i \in 1..Len(d.childNodes) : KindConsistent(d.childNodes[i])

\* The child descriptions handed to the factory, if any, are kind-consistent.
ChildArgumentsConsistent ==
  ("childNodes" \in DOMAIN input /\ input.childNodes # NO_LIST) =>
    \A i \in 1..Len(input.childNodes) : KindConsistent(input.childNodes[i])

\* C23 as stated: every description returned by describeNode, by
\* shorthandToDOMDescription or by a create*Description factory, and every
\* description nested in its children, is kind-consistent.
C23_KindConsistentAlways ==
  op # "init" => KindConsistent(output)

\* C23 amended: the same, a factory being handed child descriptions that are
\* kind-consistent themselves; it nests them as they are.
C23_KindConsistent ==
  (op # "init" /\ (op = "createDescription" => ChildArgumentsConsistent)) =>
    KindConsistent(output)

\* createElementDescription, handed attributes and two kind-consistent child
\* descriptions, one of them an element with a child, has returned a
\* kind-consistent description that nests them.
C23_Witness ==
  /\ op = "createDescription"
  /\ input.factory = "createElementDescription"
  /\ input.attributes = [a |-> "1"]
  /\ input.childNodes # NO_LIST
  /\ Len(input.childNodes) = 2
  /\ ChildArgumentsConsistent
  /\ input.childNodes[2].nodeType = ELEMENT_NODE
  /\ output.childNodes = input.childNodes
  /\ "attributes" \in DOMAIN output
  /\ KindConsistent(output)

(***************************************************************************)
(* Further claims about the reconcile operations, under Spec               *)
(***************************************************************************)
\* C24: when the live node's name equals the description's name,
\* applyDescribedNodeChanges returns the very same node instance, and if the
\* description has no childNodes key the live node's child list is left exactly
\* as it was, even when the live node has children.
C24_SameNodeReturnedChildrenKept ==
  AfterApplyNodeChanges =>
    LET i == input.index
        live == before.childNodes[i]
    IN SameName(live, input.description) =>
         /\ output = node.childNodes[i]
         /\ output.id = live.id
         /\ Len(node.childNodes) = Len(before.childNodes)
         /\ \A j \in 1..Len(node.childNodes) :
              j # i => node.childNodes[j] = before.childNodes[j]
         /\ "childNodes" \notin DOMAIN input.description =>
              node.childNodes[i].childNodes = live.childNodes

\* A live element with a child has been given a description of its name that
\* has no childNodes key and other attributes: the same element is returned,
\* changed, with its child.
C24_Witness ==
  /\ AfterApplyNodeChanges
  /\ SameName(before.childNodes[input.index], input.description)
  /\ "childNodes" \notin DOMAIN input.description
  /\ Len(before.childNodes[input.index].childNodes) > 0
  /\ output.id = before.childNodes[input.index].id
  /\ output # before.childNodes[input.index]
  /\ output.childNodes = before.childNodes[input.index].childNodes

RECURSIVE NamedDeep(_)
\* description and every description nested in its childNodes has a name
NamedDeep(description) ==
  /\ "nodeName" \in DOMAIN description
  /\ "childNodes" \in DOMAIN description =>
       \A i \in 1..Len(description.childNodes) : NamedDeep(description.childNodes[i])

\* C25, for the lists whose descriptions all have names:
\* setChildNodesFromDescriptions is idempotent: applying it a second time with
\* the same list leaves the live tree, child instances, order, values and
\* attributes at every depth, exactly as the first application left it.
C25_Idempotent ==
  (op = "setChildNodesFromDescriptions again"
     /\ \A i \in 1..Len(input) : NamedDeep(input[i])) => node = before

\* C26: if nodeListMatchesDescription(node.childNodes, ds) is true before the
\* call, setChildNodesFromDescriptions(node, ds) does not change the live tree:
\* no child is removed, replaced or appended, no value or attribute is written,
\* and every node instance at every depth is kept.
C26_NoChangeWhenMatching ==
  (AfterSetChildNodes /\ AllMatch(before.childNodes, input)) => node = before

(***************************************************************************)
(* A further claim about checkEquivalence, under SpecEquivalence           *)
(***************************************************************************)
\* C27: checkEquivalence is symmetric: for every pair of values a and b,
\* primitives, arrays, objects, an empty object against an empty array
\* included, checkEquivalence(a, b) equals checkEquivalence(b, a).
C27_Symmetric ==
  op = "checkEquivalence exchanged" => output = before.result

(***************************************************************************)
(* SpecDetect: change detection.  before is the live node when the         *)
(* snapshot is taken and node the live node later; input is the snapshot   *)
(* describeNode(before) and output nodeMatchesDescription(node, input).    *)
(***************************************************************************)
\* The live nodes of SpecCodec and the element of its first prefixed case with
\* the attribute unprefixed.
DetectNodes ==
  CodecNodes
    \cup { WithIds(n, <<0>>) : n \in
             { LiveElement("use", <<LiveAttribute("href", "x")>>, <<>>),
               LiveElement("use", <<>>, <<>>) } }

InitDetect ==
  /\ op = "init"
  /\ before \in DetectNodes
  /\ node \in DetectNodes
  /\ input = NOTHING
  /\ output = NOTHING

\* describeNode(before): the snapshot
TakeSnapshot ==
  /\ op = "init"
  /\ op' = "describeNode"
  /\ input' = describeNode(before)
  /\ UNCHANGED <<node, before, output>>

\* nodeMatchesDescription(node, snapshot)
DetectChange ==
  /\ op = "describeNode"
  /\ op' = "nodeMatchesDescription"
  /\ output' = nodeMatchesDescription(node, input)
  /\ UNCHANGED <<node, before, input>>

NextDetect ==
  \/ TakeSnapshot
  \/ DetectChange

SpecDetect == InitDetect /\ [][NextDetect]_vars

RECURSIVE SameLive(_, _)
\* The live nodes n and m are of the same kind, name and value, have the same
\* attributes, by qualified name and value, and child lists that are the same
\* in this sense, index by index.
SameLive(n, m) ==
  /\ n.nodeType = m.nodeType
  /\ n.nodeName = m.nodeName
  /\ n.nodeValue = m.nodeValue
  /\ n.nodeType = ELEMENT_NODE =>
       {<<n.attributes[i].name, n.attributes[i].value>> : i \in 1..Len(n.attributes)}
         = {<<m.attributes[i].name, m.attributes[i].value>> : i \in 1..Len(m.attributes)}
  /\ Len(n.childNodes) = Len(m.childNodes)
  /\ \A i \in 1..Len(n.childNodes) : SameLive(n.childNodes[i], m.childNodes[i])

\* C28: change detection misses nothing: if nodeMatchesDescription(n,
\* describeNode(m)) is true then describeNode(n) is deep-equal to
\* describeNode(m), and any change of kind, name, value, attribute set or child
\* list at any depth after the snapshot makes the match return false.
C28_ChangeDetected ==
  op = "nodeMatchesDescription" =>
    /\ output => describeNode(node) = input
    /\ ~SameLive(node, before) => ~output

(***************************************************************************)
(* SpecReverse: shorthandToDOMDescription on a shorthand, then             *)
(* DOMDescriptionToShorthand on the description it returned.  input is the *)
(* shorthand, before the description, output what the last call returned.  *)
(***************************************************************************)
InitReverse ==
  /\ op = "init"
  /\ input \in HTMLShorthands
  /\ output = NOTHING
  /\ node = NOTHING
  /\ before = NOTHING

\* shorthandToDOMDescription(shorthand)
ExpandToDescription ==
  /\ op = "init"
  /\ op' = "shorthandToDOMDescription"
  /\ output' = shorthandToDOMDescription(input)
  /\ UNCHANGED <<node, before, input>>

\* DOMDescriptionToShorthand(description), description being the one just made
AbbreviateAgain ==
  /\ op = "shorthandToDOMDescription"
  /\ op' = "DOMDescriptionToShorthand"
  /\ before' = output
  /\ output' = DOMDescriptionToShorthand(output)
  /\ UNCHANGED <<node, input>>

NextReverse ==
  \/ ExpandToDescription
  \/ AbbreviateAgain

SpecReverse == InitReverse /\ [][NextReverse]_vars

RECURSIVE Canonical(_)
\* The shorthand is in canonical form, at every depth: a string, or an object
\* with the keys of one variant and no other, no element having an empty
\* attributes map.
Canonical(shorthand) ==
  LET keys == DOMAIN shorthand
      contentCanonical ==
        "content" \in keys =>
          \A i \in 1..Len(shorthand.content) : Canonical(shorthand.content[i])
  IN \/ keys = {"string"}
     \/ /\ "tag" \in keys
        /\ keys \subseteq {"tag", "attributes", "content"}
        /\ "attributes" \in keys => DOMAIN shorthand.attributes # {}
        /\ contentCanonical
     \/ keys = {"name", "value"}
     \/ keys = {"cData"}
     \/ keys = {"target", "data"}
     \/ keys = {"comment"}
     \/ keys = {}
     \/ keys = {"content"} /\ contentCanonical

\* C29: for every shorthand s in canonical form,
\* DOMDescriptionToShorthand(shorthandToDOMDescription(s)) is deep-equal to s,
\* s with an empty content and an attribute whose value is null included.
C29_ReverseRoundTrip ==
  (op = "DOMDescriptionToShorthand" /\ Canonical(input)) => output = input

\* An element shorthand with attributes and an empty content has been expanded
\* to a description with an empty child list and abbreviated to itself again.
C29_Witness ==
  /\ op = "DOMDescriptionToShorthand"
  /\ Canonical(input)
  /\ DOMAIN input = {"tag", "attributes", "content"}
  /\ input.content = <<>>
  /\ before.childNodes = <<>>
  /\ output = input

(***************************************************************************)
(* A further claim about shorthandToHTML, under SpecHTML                   *)
(***************************************************************************)
\* The text is markup of the form of the kind, made from the shorthand's keys
\* for that kind.
MarkupOfKind(html, kind, shorthand) ==
  CASE kind = ELEMENT_NODE ->
         /\ Len(html) >= 3
         /\ SubSeq(html, 1, 2) = <<"<", shorthand.tag>>
         /\ html[Len(html)] \in {"/>", ">"}
    [] kind = ATTRIBUTE_NODE ->
         html = <<shorthand.name, "=\"",
                  IF shorthand.value = NULL THEN "null" ELSE shorthand.value, "\"">>
    [] kind = CDATA_SECTION_NODE ->
         html = <<"<![CDATA[ ", shorthand.cData, " ]]>">>
    [] kind = PROCESSING_INSTRUCTION_NODE ->
         html = <<"<!--", shorthand.target, " ", shorthand.data, "-->">>
    [] kind = COMMENT_NODE ->
         html = <<"<!--", shorthand.comment, "-->">>
    [] kind = DOCUMENT_FRAGMENT_NODE ->
         html = IF "content" \in DOMAIN shorthand
                THEN RenderedInOrder(shorthand.content, 1) ELSE <<>>
    [] OTHER -> FALSE

\* C30: shorthandToHTML and shorthandToDOMDescription classify every shorthand
\* object as the same variant, objects with keys of several variants included:
\* the markup shorthandToHTML emits is of the form of the kind of the
\* description shorthandToDOMDescription returns.
C30_SameVariant ==
  (op = "shorthandToDOMDescription" /\ "string" \notin DOMAIN input) =>
    MarkupOfKind(before, output.nodeType, input)

====
